---- MODULE Spec2Model ----
(***************************************************************************)
(* Verification model of the catalog admin dashboard.                      *)
(*                                                                         *)
(*  - the category tree renderer (components/CategoryTree.tsx): the        *)
(*    recursive CategoryNode render with its search / status filter and    *)
(*    its per-node collapse flag;                                          *)
(*  - the envelope client (services/api.ts, two snapshots): apiCall;       *)
(*  - React Query's retry and invalidation as the pages use them;          *)
(*  - the Categories page (queries, modals, mutations, table pagination,   *)
(*    statistics) and the category form (parent options, name and slug);   *)
(*  - the Products page (cached queries, filters) and ProductDetail        *)
(*    (variant mutations, image gallery);                                  *)
(*  - AuthProvider, ProtectedRoute and the OTP flow of the Login page.     *)
(*                                                                         *)
(* Strings that the code inspects (names, slugs, the search term) are      *)
(* sequences of one-character strings, so that toLowerCase() and           *)
(* includes() are computed rather than assumed.                            *)
(***************************************************************************)
EXTENDS Integers, Sequences, FiniteSets, TLC

VARIABLES
    categories,    \* CategoryTree prop: [present, nodes]; nodes[i] is the Category with id i
    searchTerm,    \* CategoryTree prop / Categories page state
    statusFilter,  \* CategoryTree prop / Categories page state
    isExpanded,    \* CategoryNode local state, one flag per node id
    view,          \* what CategoryTree has rendered: [emptyState, nodes]
    cookie,        \* value of the AUTH-TOKEN cookie, "" when there is none
    pathname,      \* window.location.pathname
    inflight,      \* the request apiCall is awaiting, or NoRequest
    response,      \* the HTTP response (or transport failure) the current apiCall received
    outcome,       \* how the last apiCall settled (later snapshot of the client)
    earlyOutcome,  \* how the earlier snapshot of apiCall settles on the same response
    session,       \* AuthProvider / QueryClient: [user, cache, lastCall]
    rq,            \* one query or mutation run by React Query: [kind, phase, failureCount, requests]
    form,          \* CategoryForm: [mode, category, parentOptions, parentId]
    cp,            \* Categories page: cached queries, modals, mutations
    pd,            \* Products and ProductDetail pages: cached product queries, mutation
    tbl,           \* Categories page, table view: [all, searchTerm, statusFilter, currentPage]
    cf,            \* CategoryForm fields: [mode, name, slug, typed, last, submitted]
    pf,            \* Products page: filters, sort and currentPage
    img,           \* ProductDetail: [product, currentImageIndex, isZoomOpen]
    lg             \* AuthProvider, ProtectedRoute and Login page: location, cached user, OTP flow

treeVars == <<categories, searchTerm, statusFilter, isExpanded, view>>
apiVars == <<cookie, pathname, inflight, response, outcome, earlyOutcome, session>>

pageVars == <<rq, form, cp, pd, tbl, cf, pf, img, lg>>
queryOthers == <<form, cp, pd, tbl, cf, pf, img, lg>>
formOthers == <<rq, cp, pd, tbl, cf, pf, img, lg>>
categoriesOthers == <<rq, form, pd, tbl, cf, pf, img, lg>>
productsOthers == <<rq, form, cp, tbl, cf, pf, img, lg>>
tableOthers == <<rq, form, cp, pd, cf, pf, img, lg>>
cfOthers == <<rq, form, cp, pd, tbl, pf, img, lg>>
filterOthers == <<rq, form, cp, pd, tbl, cf, img, lg>>
imageOthers == <<rq, form, cp, pd, tbl, cf, pf, lg>>
loginOthers == <<rq, form, cp, pd, tbl, cf, pf, img>>

vars == <<categories, searchTerm, statusFilter, isExpanded, view,
          cookie, pathname, inflight, response, outcome, earlyOutcome, session,
          rq, form, cp, pd, tbl, cf, pf, img, lg>>

----------------------------------------------------------------------------
(* Bounds *)

\* largest number of Category nodes in a forest
MaxNodes == 3

\* largest number of nodes in a forest that also uses the slug-only label
MaxSlugNodes == 2

\* largest number of rows of the flat category list
MaxRows == 21

\* largest page index that the pagination of the product list offers
MaxPage == 2

\* largest number of variants of a product
MaxVariants == 2

----------------------------------------------------------------------------
(* Strings *)

Upper == <<"A","B","C","D","E","F","G","H","I","J","K","L","M",
           "N","O","P","Q","R","S","T","U","V","W","X","Y","Z">>
Lower == <<"a","b","c","d","e","f","g","h","i","j","k","l","m",
           "n","o","p","q","r","s","t","u","v","w","x","y","z">>

Chars ==
    { Upper[i] : i \in 1..Len(Upper) } \cup { Lower[i] : i \in 1..Len(Lower) } \cup {"-", "/"}

LowerTable ==
    [c \in Chars |->
        IF \E i \in 1..Len(Upper) : Upper[i] = c
        THEN Lower[CHOOSE i \in 1..Len(Upper) : Upper[i] = c]
        ELSE c]

LowerChar(c) == LowerTable[c]

\* String.prototype.toLowerCase
toLowerCase(s) == [i \in 1..Len(s) |-> LowerChar(s[i])]

\* String.prototype.includes: t occurs in s as a contiguous substring
includes(s, t) ==
    \E i \in 0..(Len(s) - Len(t)) : SubSeq(s, i + 1, i + Len(t)) = t

\* String.prototype.startsWith
startsWith(s, t) == Len(s) >= Len(t) /\ SubSeq(s, 1, Len(t)) = t

Electronics == <<"E","l","e","c","t","r","o","n","i","c","s">>
electronics == <<"e","l","e","c","t","r","o","n","i","c","s">>
Phones      == <<"P","h","o","n","e","s">>
mobiles     == <<"m","o","b","i","l","e","s">>
phones      == <<"p","h","o","n","e","s">>
Handsets    == <<"H","a","n","d","s","e","t","s">>
cellPhones  == <<"c","e","l","l","-","p","h","o","n","e","s">>
PhoneTerm   == <<"P","h","o","n","e">>
phoneTerm   == <<"p","h","o","n","e">>

\* (name, slug) pairs a Category may carry
NameLabels == { <<Electronics, electronics>>,   \* matches no search term
                <<Phones, mobiles>> }           \* the name matches, the slug does not
Labels == NameLabels \cup
          { <<Handsets, cellPhones>> }          \* the slug matches, the name does not

\* values typed into the search box
SearchTerms == { <<>>, phoneTerm, PhoneTerm }

\* the option values of the status select
StatusFilters == {"all", "active", "inactive"}

----------------------------------------------------------------------------
(* Category forests *)

\* A Category: parentId 0 is a top-level node; ids are positions in the
\* sequence and a parent always precedes its children.
NodeAt(k, labels) ==
    { [name |-> l[1], slug |-> l[2], status |-> s, parentId |-> p] :
        l \in labels, s \in {0, 1}, p \in 0..(k - 1) }

RECURSIVE ForestsOfSize(_, _)
ForestsOfSize(k, labels) ==
    IF k = 0 THEN { <<>> }
    ELSE { Append(f, nd) : f \in ForestsOfSize(k - 1, labels), nd \in NodeAt(k, labels) }

\* the fetched hierarchy of section 8.7 of the specification
ExampleForest ==
    << [name |-> Electronics, slug |-> electronics, status |-> 1, parentId |-> 0],
       [name |-> Phones, slug |-> phones, status |-> 0, parentId |-> 1] >>

Forests ==
    (UNION { ForestsOfSize(k, NameLabels) : k \in 0..MaxNodes })
    \cup (UNION { ForestsOfSize(k, Labels) : k \in 0..MaxSlugNodes })
    \cup {ExampleForest}

Absent == [present |-> FALSE, nodes |-> <<>>]
Given(f) == [present |-> TRUE, nodes |-> f]

Ids(cats) == 1..Len(cats.nodes)

\* category.children of node n (n = 0: the root sequence), as a set of ids
children(cats, n) == { m \in Ids(cats) : cats.nodes[m].parentId = n }

RECURSIVE descendants(_, _)
descendants(cats, n) ==
    children(cats, n) \cup UNION { descendants(cats, c) : c \in children(cats, n) }

RECURSIVE depth(_, _)
depth(cats, n) ==
    IF cats.nodes[n].parentId = 0 THEN 0
    ELSE 1 + depth(cats, cats.nodes[n].parentId)

----------------------------------------------------------------------------
(* Categories page: statistics *)

NoStats == [total |-> 0, active |-> 0, inactive |-> 0]

\* the counters of one category, without its children
ownStats(cat) ==
    [total |-> 1,
     active |-> IF cat.status = 1 THEN 1 ELSE 0,
     inactive |-> IF cat.status = 1 THEN 0 ELSE 1]

addStats(a, b) ==
    [total |-> a.total + b.total,
     active |-> a.active + b.active,
     inactive |-> a.inactive + b.inactive]

\* countCategories without the descent into cat.children
RECURSIVE countCategoriesTopLevel(_, _)
countCategoriesTopLevel(cats, ids) ==
    IF ids = {} THEN NoStats
    ELSE LET n == CHOOSE m \in ids : TRUE
         IN  addStats(ownStats(cats.nodes[n]),
                      countCategoriesTopLevel(cats, ids \ {n}))

\* countCategories(cats) over the categories whose ids are given
RECURSIVE countCategories(_, _)
countCategories(cats, ids) ==
    IF ids = {} THEN NoStats
    ELSE LET n == CHOOSE m \in ids : TRUE
             childStats == IF children(cats, n) # {}
                           THEN countCategories(cats, children(cats, n))
                           ELSE NoStats
         IN  addStats(addStats(ownStats(cats.nodes[n]), childStats),
                      countCategories(cats, ids \ {n}))

categoryStats(cats) ==
    IF ~cats.present THEN NoStats
    ELSE countCategories(cats, children(cats, 0))

----------------------------------------------------------------------------
(* CategoryNode: filter logic *)

\* lines 45-47 / 55-57, on one (name, slug) pair
matchesSearchOn(name, slug, term) ==
    \/ term = <<>>
    \/ includes(toLowerCase(name), toLowerCase(term))
    \/ includes(toLowerCase(slug), toLowerCase(term))

\* matchesSearchOn tabulated over the labels and terms of the model
SearchTable ==
    [l \in Labels \cup {<<Phones, phones>>}, t \in SearchTerms |->
        matchesSearchOn(l[1], l[2], t)]

matchesSearchWith(cat, term) == SearchTable[<<cat.name, cat.slug>>, term]

\* a status check that lets every status through
matchesStatusNoFilter(cat, filter) == TRUE

\* a status check that forgets the 'all' option
matchesStatusNoAll(cat, filter) ==
    \/ filter = ""
    \/ (filter = "active" /\ cat.status = 1)
    \/ (filter = "inactive" /\ cat.status = 0)

matchesStatusWith(cat, filter) ==
    \/ filter = ""
    \/ filter = "all"
    \/ (filter = "active" /\ cat.status = 1)
    \/ (filter = "inactive" /\ cat.status = 0)

shouldShow(cat, term, filter) ==
    matchesSearchWith(cat, term) /\ matchesStatusWith(cat, filter)

\* a lookahead that recurses through all descendants
hasVisibleDescendants(cats, n, term, filter) ==
    \E c \in descendants(cats, n) :
        matchesSearchWith(cats.nodes[c], term) /\ matchesStatusWith(cats.nodes[c], filter)

hasVisibleChildren(cats, n, term, filter) ==
    \E c \in children(cats, n) :
        matchesSearchWith(cats.nodes[c], term) /\ matchesStatusWith(cats.nodes[c], filter)

\* a component that never returns null
nodeAlwaysRenders(cats, n, term, filter) == TRUE

\* the component does not return null
nodeRenders(cats, n, term, filter) ==
    shouldShow(cats.nodes[n], term, filter) \/ hasVisibleChildren(cats, n, term, filter)

\* the ids rendered by <CategoryNode category={n}>, itself and below
RECURSIVE CategoryNode(_, _, _, _, _)
CategoryNode(cats, n, term, filter, exp) ==
    IF ~nodeRenders(cats, n, term, filter) THEN {}
    ELSE {n} \cup
         (IF exp[n] /\ children(cats, n) # {}
          THEN UNION { CategoryNode(cats, c, term, filter, exp) : c \in children(cats, n) }
          ELSE {})

\* a tree without the empty-state branch
CategoryTreeNoEmptyState(cats, term, filter, exp) ==
    [emptyState |-> FALSE,
     nodes |-> UNION { CategoryNode(cats, r, term, filter, exp) : r \in children(cats, 0) }]

CategoryTree(cats, term, filter, exp) ==
    IF ~cats.present \/ Len(cats.nodes) = 0
    THEN [emptyState |-> TRUE, nodes |-> {}]
    ELSE [emptyState |-> FALSE,
          nodes |-> UNION { CategoryNode(cats, r, term, filter, exp) : r \in children(cats, 0) }]

\* a CategoryNode instance exists for n: a root, or a child of a rendered, expanded node
mounted(cats, n, v, exp) ==
    LET p == cats.nodes[n].parentId
    IN  p = 0 \/ (p \in v.nodes /\ exp[p])

\* useState(true): an instance that is unmounted loses its flag and starts expanded again
remount(cats, v, exp) ==
    [n \in Ids(cats) |-> IF mounted(cats, n, v, exp) THEN exp[n] ELSE TRUE]

\* one collapse flag shared by the whole tree
setIsExpandedShared(exp, n) == [m \in DOMAIN exp |-> ~exp[n]]

setIsExpanded(exp, n) == [exp EXCEPT ![n] = ~exp[n]]

----------------------------------------------------------------------------
(* JSON values and HTTP responses *)

\* A JSON / JavaScript value: t is the type tag, s the text of a string,
\* f the own properties of an object as <<key, value>> pairs.
JUndefined == [t |-> "undefined", s |-> "", f |-> {}]
JNull == [t |-> "null", s |-> "", f |-> {}]
JStr(x) == [t |-> "string", s |-> x, f |-> {}]
JObj(fields) == [t |-> "object", s |-> "", f |-> fields]

\* key in v
Has(v, k) == \E kv \in v.f : kv[1] = k

\* v.key (undefined when the property is absent)
Get(v, k) == IF Has(v, k) THEN (CHOOSE kv \in v.f : kv[1] = k)[2] ELSE JUndefined

\* ToBoolean
truthy(v) ==
    /\ v.t # "undefined"
    /\ v.t # "null"
    /\ ~(v.t = "string" /\ v.s = "")

\* String(v), the message new Error(v) carries
StringOf(v) ==
    CASE v.t = "string" -> v.s
      [] v.t = "object" -> "[object Object]"
      [] v.t = "null" -> "null"
      [] OTHER -> ""

Envelope(m, d) == JObj({ <<"message", JStr(m)>>, <<"data", d>> })

\* payloads without a 'message' property
PlainPayloads ==
    { JObj({ <<"id", JStr("1")>>, <<"name", JStr("X")>> }),
      JObj({}),
      JStr("pong"),
      JStr(""),
      JNull }

\* a domain record that has a 'message' property of its own (a ContactMessage)
MessageRecord ==
    JObj({ <<"id", JStr("7")>>, <<"message", JStr("Hello")>>, <<"status", JStr("0")>> })

\* what an inner envelope may carry as data
InnerData ==
    { JStr("Name already exists"), JStr(""), JNull, JUndefined,
      JObj({ <<"id", JStr("1")>>, <<"name", JStr("X")>> }) }

InnerEnvelopes ==
    { Envelope(m, d) : m \in {"success", "error"}, d \in InnerData }
    \cup { JObj({ <<"message", JStr("error")>> }) }

Payloads == PlainPayloads \cup {MessageRecord} \cup InnerEnvelopes

\* bodies of 2xx responses: the server's envelope, or no content
OkBodies == { Envelope("ok", d) : d \in Payloads } \cup { JStr("") }

\* bodies of error responses: with a message, with an empty one, without one
ErrorBodies ==
    { JObj({ <<"message", JStr("Category name already exists")>> }),
      JObj({ <<"message", JStr("Unauthorized")>> }),
      JObj({ <<"message", JStr("")>> }),
      JObj({}),
      JStr("") }

StatusText(st) ==
    CASE st = 400 -> "Request failed with status code 400"
      [] st = 401 -> "Request failed with status code 401"
      [] st = 500 -> "Request failed with status code 500"
      [] OTHER -> ""

\* status 0: the request got no response; text is axios's transport message
Responses ==
    { [status |-> 200, data |-> b, text |-> ""] : b \in OkBodies }
    \cup { [status |-> st, data |-> b, text |-> StatusText(st)] :
             st \in {400, 401, 500}, b \in ErrorBodies }
    \cup { [status |-> 0, data |-> JUndefined, text |-> m] :
             m \in {"Network Error", "timeout of 10000ms exceeded"} }

NoResponse == [status |-> -1, data |-> JUndefined, text |-> ""]
\* the Authorization header of a request
NoHeader == [present |-> FALSE, scheme |-> "", token |-> ""]
Bearer(t) == [present |-> TRUE, scheme |-> "Bearer", token |-> t]

NoRequest == [method |-> "", url |-> "", authorization |-> NoHeader]

Returned(v) == [kind |-> "returned", value |-> v, message |-> ""]
Thrown(m) == [kind |-> "thrown", value |-> JUndefined, message |-> m]
Pending == [kind |-> "none", value |-> JUndefined, message |-> ""]

\* axios validateStatus: a 2xx response resolves, anything else rejects
resolves(r) == r.status >= 200 /\ r.status < 300

----------------------------------------------------------------------------
(* apiCall *)

loginPath == <<"/","l","o","g","i","n">>
categoriesPath == <<"/","c","a","t","e","g","o","r","i","e","s">>
\* the route products/:id with id 'login'
productLoginPath == <<"/","p","r","o","d","u","c","t","s","/","l","o","g","i","n">>
Paths == {loginPath, categoriesPath, productLoginPath}

Tokens == {"", "t1"}
Methods == {"GET", "POST"}
Urls == {"/categories", "/auth/me"}
logoutUrl == "/auth/logout"

\* the cached current user (query ['auth', 'me'])
NoUser == "null"
Users == {"admin"}

\* a request interceptor that sets the header whatever the cookie holds
authorizationHeaderAlways(token) == Bearer(token)

\* request interceptor: the Authorization header of an outgoing request
authorizationHeader(token) == IF token # "" THEN Bearer(token) ELSE NoHeader

\* response interceptor, later snapshot: the cookie after response r
cookieAfter(r, token) == IF r.status = 401 THEN "" ELSE token

\* response interceptor, later snapshot: the location after response r
pathnameAfter(r, path) ==
    IF r.status = 401 /\ ~includes(path, loginPath) THEN loginPath ELSE path

\* an unwrap that returns whatever the outer envelope holds
unwrapOuterOnly(responseData) == Returned(responseData)

\* an unwrap that always takes the inner data of an object payload
unwrapAlwaysInner(responseData) ==
    IF truthy(responseData) /\ responseData.t = "object"
    THEN IF Get(responseData, "message") = JStr("error")
         THEN Thrown(IF truthy(Get(responseData, "data"))
                     THEN StringOf(Get(responseData, "data"))
                     ELSE "An error occurred")
         ELSE Returned(Get(responseData, "data"))
    ELSE Returned(responseData)

\* later snapshot, the try block after the await: unwrap response.data.data
unwrap(responseData) ==
    IF truthy(responseData) /\ responseData.t = "object" /\ Has(responseData, "message")
    THEN IF Get(responseData, "message") = JStr("error")
         THEN Thrown(IF truthy(Get(responseData, "data"))
                     THEN StringOf(Get(responseData, "data"))
                     ELSE "An error occurred")
         ELSE Returned(Get(responseData, "data"))
    ELSE Returned(responseData)

\* a catch block without the transport-level text (the earlier snapshot)
rejectionNoTransport(r) ==
    LET serverMessage == Get(r.data, "message")
    IN  Thrown(IF truthy(serverMessage) THEN StringOf(serverMessage)
               ELSE "An error occurred")

\* later snapshot, the catch block on a rejected request
rejection(r) ==
    IF r.status = 0
    THEN Thrown(r.text)
    ELSE LET serverMessage == Get(r.data, "message")
         IN  Thrown(IF truthy(serverMessage) THEN StringOf(serverMessage)
                    ELSE IF r.text # "" THEN r.text
                    ELSE "An error occurred")

\* later snapshot of apiCall, from the response to the settled promise
apiCall(r) ==
    IF resolves(r) THEN unwrap(Get(r.data, "data")) ELSE rejection(r)

\* earlier snapshot of apiCall
apiCallEarly(r) ==
    IF resolves(r) THEN Returned(Get(r.data, "data"))
    ELSE LET serverMessage == Get(r.data, "message")
         IN  Thrown(IF truthy(serverMessage) THEN StringOf(serverMessage)
                    ELSE "An error occurred")

----------------------------------------------------------------------------
(* AuthProvider: the cached user and the query cache *)

NoSession == [user |-> NoUser, cache |-> {}, lastCall |-> ""]

\* useQuery: a GET that returned is cached under its key; the data of
\* ['auth', 'me'] is the current user
queryCached(s, req, result) ==
    [user |-> IF req.url = "/auth/me" /\ req.method = "GET"
              THEN (IF result.kind = "returned" /\ truthy(result.value)
                    THEN "admin" ELSE NoUser)
              ELSE s.user,
     cache |-> IF req.method = "GET" /\ result.kind = "returned"
               THEN s.cache \cup {req.url} ELSE s.cache,
     lastCall |-> req.url]

\* logout, finally: Cookies.remove('AUTH-TOKEN')
logoutCookie(token) == ""

\* a logout that resets the user but keeps the other cached queries
logoutSessionKeepsCache(s) == [user |-> NoUser, cache |-> s.cache, lastCall |-> logoutUrl]

\* logout, finally: setQueryData(['auth', 'me'], null); queryClient.clear()
logoutSession(s) == [user |-> NoUser, cache |-> {}, lastCall |-> logoutUrl]

\* isAuthenticated: !!user
isAuthenticated == session.user # NoUser

----------------------------------------------------------------------------
(* React Query: retry of a failed query *)

\* the characters of the error messages apiCall can throw
MessageText(m) ==
    CASE m = "Category name already exists" ->
           <<"C","a","t","e","g","o","r","y"," ","n","a","m","e"," ","a","l","r","e","a","d","y"," ","e","x","i","s","t","s">>
      [] m = "Unauthorized" ->
           <<"U","n","a","u","t","h","o","r","i","z","e","d">>
      [] m = "Request failed with status code 400" ->
           <<"R","e","q","u","e","s","t"," ","f","a","i","l","e","d"," ","w","i","t","h"," ","s","t","a","t","u","s"," ","c","o","d","e"," ","4","0","0">>
      [] m = "Request failed with status code 401" ->
           <<"R","e","q","u","e","s","t"," ","f","a","i","l","e","d"," ","w","i","t","h"," ","s","t","a","t","u","s"," ","c","o","d","e"," ","4","0","1">>
      [] m = "Request failed with status code 500" ->
           <<"R","e","q","u","e","s","t"," ","f","a","i","l","e","d"," ","w","i","t","h"," ","s","t","a","t","u","s"," ","c","o","d","e"," ","5","0","0">>
      [] m = "Network Error" ->
           <<"N","e","t","w","o","r","k"," ","E","r","r","o","r">>
      [] m = "timeout of 10000ms exceeded" ->
           <<"t","i","m","e","o","u","t"," ","o","f"," ","1","0","0","0","0","m","s"," ","e","x","c","e","e","d","e","d">>
      [] m = "An error occurred" ->
           <<"A","n"," ","e","r","r","o","r"," ","o","c","c","u","r","r","e","d">>
      [] m = "Name already exists" ->
           <<"N","a","m","e"," ","a","l","r","e","a","d","y"," ","e","x","i","s","t","s">>
      [] m = "[object Object]" ->
           <<"[","o","b","j","e","c","t"," ","O","b","j","e","c","t","]">>
      [] m = "" ->
           <<>>

code401 == <<"4","0","1">>

NoQuery == [kind |-> "", phase |-> "idle", failureCount |-> 0, requests |-> 0]

\* what the page runs through React Query
Kinds == {"me", "query", "mutation"}

RequestOf(kind) ==
    CASE kind = "me" -> [method |-> "GET", url |-> "/auth/me"]
      [] kind = "query" -> [method |-> "GET", url |-> "/categories/hierarchy"]
      [] kind = "mutation" -> [method |-> "POST", url |-> "/categories"]

\* AuthProvider, retry of ['auth', 'me']; error is what apiCall threw, an
\* Error that carries a message and no status
retryMe(failureCount, error) ==
    IF includes(MessageText(error.message), code401)
    THEN FALSE
    ELSE failureCount < 1

\* QueryClient defaultOptions.queries.retry: 1
retryDefault(failureCount) == failureCount < 1

\* a mutation default that retries like a query
retryMutationOnce(failureCount) == failureCount < 1

\* mutations have no retry option: React Query's default of 0
retryMutation(failureCount) == FALSE

\* the retryer's decision after a failure
shouldRetry(kind, failureCount, error) ==
    CASE kind = "me" -> retryMe(failureCount, error)
      [] kind = "query" -> retryDefault(failureCount)
      [] OTHER -> retryMutation(failureCount)

----------------------------------------------------------------------------
(* CategoryForm: parent options *)

\* category.children of node n in array order
RECURSIVE childSeq(_, _, _)
childSeq(cats, n, from) ==
    IF from > Len(cats.nodes) THEN <<>>
    ELSE (IF cats.nodes[from].parentId = n THEN <<from>> ELSE <<>>)
         \o childSeq(cats, n, from + 1)

\* the one character U+2014 that prefixes nested options
emDash == "em-dash"

\* emDash.repeat(level)
RECURSIVE repeatDash(_)
repeatDash(level) == IF level = 0 THEN <<>> ELSE <<emDash>> \o repeatDash(level - 1)

\* no category excluded (category?.id of an absent category)
NoExclude == 0

\* a flatten that leaves out the edited category but still walks its children
RECURSIVE flattenSkipOnlySelf(_, _, _, _)
flattenSkipOnlySelf(cats, seq, level, exclude) ==
    IF seq = <<>> THEN <<>>
    ELSE LET cat == Head(seq) IN
         (IF cat # exclude
          THEN << [id |-> cat,
                   name |-> repeatDash(level) \o <<" ">> \o cats.nodes[cat].name] >>
          ELSE <<>>)
         \o flattenSkipOnlySelf(cats, childSeq(cats, cat, 1), level + 1, exclude)
         \o flattenSkipOnlySelf(cats, Tail(seq), level, exclude)

\* flatten(categories, level): depth-first, skipping the excluded category
\* together with its subtree
RECURSIVE flatten(_, _, _, _)
flatten(cats, seq, level, exclude) ==
    IF seq = <<>> THEN <<>>
    ELSE LET cat == Head(seq) IN
         (IF cat # exclude
          THEN << [id |-> cat,
                   name |-> repeatDash(level) \o <<" ">> \o cats.nodes[cat].name] >>
               \o flatten(cats, childSeq(cats, cat, 1), level + 1, exclude)
          ELSE <<>>)
         \o flatten(cats, Tail(seq), level, exclude)

flattenCategories(cats, exclude) == flatten(cats, childSeq(cats, 0, 1), 0, exclude)

NoForm == [mode |-> "closed", category |-> NoExclude, parentOptions |-> <<>>, parentId |-> 0]

\* the values of the options of the parent select ('' is "No Parent")
optionIds(f) == { f.parentOptions[i].id : i \in 1..Len(f.parentOptions) }

----------------------------------------------------------------------------
(* Categories page: cached queries and mutations *)

\* what a query holds: nothing, the server's state as it is now, or the
\* state the server had before a later mutation
NoData == "none"
Current == "current"
Stale == "stale"

\* a query of the cache
NoQueryState == [data |-> NoData, invalidated |-> FALSE, fetching |-> FALSE,
                 failureCount |-> 0, error |-> FALSE]

\* a query whose first fetch has started
Loading == [NoQueryState EXCEPT !.fetching = TRUE]

QueryKeys == {"hierarchy", "all", "stats"}

MutationKinds == {"create", "update", "delete"}

\* id of the category whose row actions are used
RowIds == {1}

\* one response of each kind a request of the page can get: a payload, an
\* inner error envelope, a 401, a server error, no response
PageResponses ==
    { CHOOSE r \in Responses : r.status = 200 /\ apiCall(r).kind = "returned",
      CHOOSE r \in Responses : r.status = 200 /\ apiCall(r).kind = "thrown",
      CHOOSE r \in Responses : r.status = 401,
      CHOOSE r \in Responses : r.status = 500,
      CHOOSE r \in Responses : r.status = 0 }

\* the application is not on the page (login page after a redirect)
NoPage == [mounted |-> FALSE,
           hierarchy |-> NoQueryState, all |-> NoQueryState, stats |-> NoQueryState,
           viewMode |-> "tree", modal |-> "none", selectedCategory |-> 0,
           pending |-> {}, toast |-> "none"]

\* Categories mounts: tree view, no modal, hierarchy and stats are fetched
MountedPage ==
    [NoPage EXCEPT !.mounted = TRUE, !.hierarchy = Loading, !.stats = Loading]

\* enabled: viewMode === 'table' for ['categories', 'all']
isActive(page, key) == key # "all" \/ page.viewMode = "table"

\* a fetch (re)starts: the error is kept while there is data to show
refetch(q) ==
    [q EXCEPT !.fetching = TRUE, !.failureCount = 0,
              !.error = IF q.data = NoData THEN FALSE ELSE q.error]

\* an invalidation of the hierarchy query alone
invalidateHierarchyOnly(page) ==
    [page EXCEPT !.hierarchy = refetch([page.hierarchy EXCEPT !.invalidated = TRUE])]

\* queryClient.invalidateQueries({ queryKey: ['categories'] }): every query
\* under the key is marked, the active ones are fetched again
invalidateQueries(page) ==
    LET mark(key, q) == IF isActive(page, key)
                        THEN refetch([q EXCEPT !.invalidated = TRUE])
                        ELSE [q EXCEPT !.invalidated = TRUE]
    IN  [page EXCEPT !.hierarchy = mark("hierarchy", page.hierarchy),
                     !.all = mark("all", page.all),
                     !.stats = mark("stats", page.stats)]

\* the response of a query fetch
queryResult(q, result) ==
    IF result.kind = "returned"
    THEN [data |-> Current, invalidated |-> FALSE, fetching |-> FALSE,
          failureCount |-> 0, error |-> FALSE]
    ELSE IF retryDefault(q.failureCount)
    THEN [q EXCEPT !.failureCount = q.failureCount + 1]
    ELSE [q EXCEPT !.fetching = FALSE, !.error = TRUE]

\* if (error) return the "Failed to load categories" view
errorView(page) == page.hierarchy.error

\* the page body with header, rows and modals is rendered
bodyShown(page) == page.mounted /\ ~errorView(page)

\* the rows that carry the edit and delete buttons are rendered
rowsShown(page) ==
    /\ bodyShown(page)
    /\ page.hierarchy.data # NoData
    /\ page.viewMode = "table" => page.all.data # NoData

\* the submit control of the open modal can be used
canSubmit(page) ==
    /\ bodyShown(page)
    /\ page.modal \in {"create", "edit", "delete"}
    /\ page.modal = "create" => "create" \notin page.pending
    /\ page.modal = "edit" => ("update" \notin page.pending /\ page.selectedCategory # 0)
    /\ page.modal = "delete" => ("delete" \notin page.pending /\ page.selectedCategory # 0)

\* the server applied a mutation: what the cache holds is its earlier state
serverChanged(q) == [q EXCEPT !.data = IF q.data = Current THEN Stale ELSE q.data]

written(page) ==
    [page EXCEPT !.hierarchy = serverChanged(page.hierarchy),
                 !.all = serverChanged(page.all),
                 !.stats = serverChanged(page.stats)]

modalOf(kind) ==
    CASE kind = "create" -> "create"
      [] kind = "update" -> "edit"
      [] kind = "delete" -> "delete"

\* onSuccess of createMutation / updateMutation / deleteMutation
onSuccess(page, kind) ==
    [invalidateQueries(written(page)) EXCEPT
        !.pending = page.pending \ {kind},
        !.modal = IF page.modal = modalOf(kind) THEN "none" ELSE page.modal,
        !.selectedCategory = IF kind = "create" THEN page.selectedCategory ELSE 0,
        !.toast = "success"]

\* onError: toast.error(...)
onError(page, kind) ==
    [page EXCEPT !.pending = page.pending \ {kind}, !.toast = "error"]

----------------------------------------------------------------------------
(* Products and ProductDetail: cached queries and mutations *)

productsPath == <<"/","p","r","o","d","u","c","t","s">>

\* the product opened from the list
ProductIds == {"p1"}

idChars(id) == <<"p","1">>

\* the route products/:id
productPath(id) == productsPath \o <<"/">> \o idChars(id)

ProductQueries == {"filtered", "stats"} \cup ProductIds

\* queryKey of each query
queryKey(name) ==
    CASE name = "filtered" -> <<"products", "filtered", "filterParams">>
      [] name = "stats" -> <<"products", "stats">>
      [] OTHER -> <<"products", name>>

VariantKinds == {"createVariant", "updateVariant", "deleteVariant"}
ProductKinds == {"createProduct", "updateProduct", "deleteProduct"}

NoProducts == [page |-> "none", id |-> "",
               filtered |-> NoQueryState, stats |-> NoQueryState,
               p1 |-> NoQueryState,
               pending |-> "", toast |-> "none"]

\* Products mounts: the filtered list and the stats are fetched
ProductsList == [NoProducts EXCEPT !.page = "list", !.filtered = Loading, !.stats = Loading]

\* the query is in the cache
cached(q) == q.data # NoData \/ q.fetching \/ q.error

\* the query has a mounted observer
observed(state, name) ==
    \/ state.page = "list" /\ name \in {"filtered", "stats"}
    \/ state.page = "detail" /\ name = state.id

\* invalidateQueries matches the queries whose key starts with the filter's key
partialMatchKey(key, filterKey) ==
    /\ Len(filterKey) <= Len(key)
    /\ \A i \in 1..Len(filterKey) : key[i] = filterKey[i]

\* queryClient.invalidateQueries({ queryKey: filterKey })
invalidateProducts(state, filterKey) ==
    LET mark(name) ==
            LET q == state[name] IN
            IF cached(q) /\ partialMatchKey(queryKey(name), filterKey)
            THEN IF observed(state, name)
                 THEN refetch([q EXCEPT !.invalidated = TRUE])
                 ELSE [q EXCEPT !.invalidated = TRUE]
            ELSE q
    IN  [state EXCEPT !.filtered = mark("filtered"), !.stats = mark("stats"),
                      !.p1 = mark("p1")]

\* an observer mounts: no fetch while the data is fresh (staleTime)
mountQuery(q, elapsed) ==
    IF ~q.fetching /\ (q.data = NoData \/ q.invalidated \/ elapsed)
    THEN refetch(q) ELSE q

\* the queries whose data holds the variants of this product
holdsVariantsOf(id) == {id, "filtered"}

\* the server applied a variant write of the product
variantWritten(state) ==
    [name \in ProductQueries |->
        IF name \in holdsVariantsOf(state.id) THEN serverChanged(state[name]) ELSE state[name]]

\* onSuccess of createVariantMutation / updateVariantMutation / deleteVariantMutation
onVariantSuccess(state) ==
    LET w == variantWritten(state)
        after == [state EXCEPT !.filtered = w["filtered"], !.stats = w["stats"],
                               !.p1 = w["p1"]]
    IN  [invalidateProducts(after, <<"products", state.id>>) EXCEPT
            !.pending = "", !.toast = "success"]

\* onSuccess of the Products page's createMutation / updateMutation / deleteMutation
onProductSuccess(state) ==
    LET after == [state EXCEPT !.filtered = serverChanged(state.filtered),
                               !.stats = serverChanged(state.stats),
                               !.p1 = serverChanged(state.p1)]
    IN  [invalidateProducts(after, <<"products">>) EXCEPT
            !.pending = "", !.toast = "success"]

----------------------------------------------------------------------------
(* Categories page: table view *)

\* const [pageSize] = useState(10)
pageSize == 10

\* rows of the flat list: the first k are named Phones and active, the
\* others are named Electronics and inactive; the id is the position
TableRow(i, k) ==
    IF i <= k
    THEN [id |-> i, name |-> Phones, slug |-> phones, status |-> 1]
    ELSE [id |-> i, name |-> Electronics, slug |-> electronics, status |-> 0]

Tables == { [i \in 1..n |-> TableRow(i, k)] : n \in 0..MaxRows, k \in 0..MaxRows }

NoTable == [all |-> <<>>, searchTerm |-> <<>>, statusFilter |-> "all", currentPage |-> 0]

matchesStatusTable(category, filter) ==
    \/ filter = "all"
    \/ (filter = "active" /\ category.status = 1)
    \/ (filter = "inactive" /\ category.status = 0)

filteredTableCategories(t) ==
    SelectSeq(t.all, LAMBDA category :
        /\ matchesSearchWith(category, t.searchTerm)
        /\ matchesStatusTable(category, t.statusFilter))

\* Array.prototype.slice(startIndex, endIndex) for non-negative indexes
slice(seq, startIndex, endIndex) ==
    IF startIndex >= Len(seq) THEN <<>>
    ELSE SubSeq(seq, startIndex + 1,
                IF endIndex < Len(seq) THEN endIndex ELSE Len(seq))

pageOf(t, page) ==
    LET startIndex == page * pageSize
        endIndex == startIndex + pageSize
    IN  slice(filteredTableCategories(t), startIndex, endIndex)

paginatedCategories(t) == pageOf(t, t.currentPage)

\* Math.ceil(filteredTableCategories.length / pageSize)
totalPages(t) == (Len(filteredTableCategories(t)) + pageSize - 1) \div pageSize

----------------------------------------------------------------------------
(* CategoryForm: name and slug fields *)

Digits == {"0", "1", "2", "3", "4", "5", "6", "7", "8", "9"}
LowerLetters == { Lower[i] : i \in 1..Len(Lower) }
Whitespace == {" "}

\* toLowerCase on strings that may hold characters outside Chars
toLowerCaseAny(s) ==
    [i \in 1..Len(s) |-> IF s[i] \in Chars THEN LowerChar(s[i]) ELSE s[i]]

\* replace(/[^a-z0-9\s-]/g, '')
removeOthers(s) ==
    SelectSeq(s, LAMBDA c : c \in LowerLetters \cup Digits \cup Whitespace \cup {"-"})

\* replace(/X+/g, '-') for a character class X
RECURSIVE replaceRuns(_, _)
replaceRuns(s, class) ==
    IF s = <<>> THEN <<>>
    ELSE IF Head(s) \notin class THEN <<Head(s)>> \o replaceRuns(Tail(s), class)
    ELSE IF Len(s) > 1 /\ s[2] \in class THEN replaceRuns(Tail(s), class)
    ELSE <<"-">> \o replaceRuns(Tail(s), class)

\* String.prototype.trim
RECURSIVE trim(_)
trim(s) ==
    IF s = <<>> THEN s
    ELSE IF Head(s) \in Whitespace THEN trim(Tail(s))
    ELSE IF s[Len(s)] \in Whitespace THEN trim(SubSeq(s, 1, Len(s) - 1))
    ELSE s

slugOf(watchName) ==
    trim(replaceRuns(replaceRuns(removeOthers(toLowerCaseAny(watchName)), Whitespace), {"-"}))

\* the effect on watchName, in a form without (create) or with (edit) a category
slugEffect(f, watchName) ==
    IF watchName # <<>> /\ f.mode = "create" THEN slugOf(watchName) ELSE f.slug

\* categorySchema on name and slug
valid(f) ==
    /\ Len(f.name) >= 2
    /\ Len(f.slug) >= 2
    /\ \A i \in 1..Len(f.slug) : f.slug[i] \in LowerLetters \cup Digits \cup {"-"}

NoSubmit == [name |-> <<>>, slug |-> <<>>]

NoFields ==
    [mode |-> "none", name |-> <<>>, slug |-> <<>>, typed |-> FALSE,
     last |-> "none", submitted |-> NoSubmit]

MyTv == <<"M", "y", " ", " ", "T", "v", "!">>
NameInputs == { <<>>, <<"T", "v">>, MyTv, Phones }
SlugInputs == { <<>>, <<"t", "v", "-", "1">>, <<"T", "V">> }

----------------------------------------------------------------------------
(* Products page: filters, sort and page *)

\* the page that a change of filter selects
firstPageKept(currentPage) == currentPage

\* setCurrentPage(0)
firstPage(currentPage) == 0

\* the state of the page after construction
InitialFilters ==
    [currentPage |-> 0, searchTerm |-> "", brandFilter |-> "", categoryFilter |-> "",
     statusFilter |-> "1", sortBy |-> "createdAt", sortDir |-> "desc", last |-> "none"]

NoFilters == [InitialFilters EXCEPT !.last = "unmounted"]

undefined == "undefined"

\* x || undefined
orUndefined(x) == IF x = "" THEN undefined ELSE x

filterParams(p) ==
    [brandId |-> orUndefined(p.brandFilter),
     categoryId |-> orUndefined(p.categoryFilter),
     keyword |-> orUndefined(p.searchTerm),
     status |-> p.statusFilter,
     page |-> p.currentPage,
     size |-> pageSize,
     sortBy |-> p.sortBy,
     direction |-> p.sortDir]

Keywords == {"", "tv"}
BrandOptions == {"", "b1"}
CategoryOptions == {"", "c1"}
StatusOptions == {"0", "1", "2"}
SortOptions == {"createdAt", "name"}

----------------------------------------------------------------------------
(* ProductDetail: images *)

imageA == [imageUrl |-> "a", isPrimary |-> FALSE, sortOrder |-> 1]
imageB == [imageUrl |-> "b", isPrimary |-> TRUE, sortOrder |-> 2]
imageC == [imageUrl |-> "c", isPrimary |-> FALSE, sortOrder |-> 0]

\* variant.images of the variants a product may have
VariantImages == { <<>>, <<imageA, imageB>>, <<imageB, imageC>>, <<imageC>> }

\* product.variants, each variant reduced to its images
ProductVariants == UNION { [1..n -> VariantImages] : n \in 0..MaxVariants }

\* variant.images.forEach: push the images whose imageUrl is not yet in allImages
RECURSIVE pushDistinct(_, _)
pushDistinct(allImages, images) ==
    IF images = <<>> THEN allImages
    ELSE pushDistinct(
           IF \E i \in 1..Len(allImages) : allImages[i].imageUrl = Head(images).imageUrl
           THEN allImages
           ELSE Append(allImages, Head(images)),
           Tail(images))

RECURSIVE collectImages(_, _)
collectImages(allImages, variants) ==
    IF variants = <<>> THEN allImages
    ELSE collectImages(pushDistinct(allImages, Head(variants)), Tail(variants))

\* the comparator of allImages.sort: a is placed before b
before(a, b) ==
    IF a.isPrimary /\ ~b.isPrimary THEN TRUE
    ELSE IF ~a.isPrimary /\ b.isPrimary THEN FALSE
    ELSE a.sortOrder < b.sortOrder

\* Array.prototype.sort (stable), by insertion
RECURSIVE insertSorted(_, _)
insertSorted(sorted, image) ==
    IF sorted = <<>> THEN <<image>>
    ELSE IF before(image, Head(sorted)) THEN <<image>> \o sorted
    ELSE <<Head(sorted)>> \o insertSorted(Tail(sorted), image)

RECURSIVE sortImages(_)
sortImages(images) ==
    IF images = <<>> THEN <<>>
    ELSE insertSorted(sortImages(SubSeq(images, 1, Len(images) - 1)), images[Len(images)])

getAllImages(variants) ==
    IF Len(variants) = 0 THEN <<>>
    ELSE sortImages(collectImages(<<>>, variants))

NoImages == [product |-> <<>>, currentImageIndex |-> 0, isZoomOpen |-> FALSE]

\* the variants after one variant was created, updated or deleted
afterVariantWrite(variants) ==
    { Append(variants, v) : v \in IF Len(variants) < MaxVariants THEN VariantImages ELSE {} }
    \cup { [variants EXCEPT ![i] = v] : i \in 1..Len(variants), v \in VariantImages }
    \cup { SubSeq(variants, 1, i - 1) \o SubSeq(variants, i + 1, Len(variants)) :
             i \in 1..Len(variants) }

----------------------------------------------------------------------------
(* AuthProvider, ProtectedRoute and the Login page *)

rootPath == <<"/">>

\* the ['auth', 'me'] query before its first result
FirstFetch == [data |-> "undefined", fetching |-> TRUE, failureCount |-> 0]

\* useState defaults of the Login page; generate and verify are the states of
\* the two mutations, stale marks a generate-OTP request that was in flight
\* when the user went back from the OTP step
LoginDefaults ==
    [step |-> "auth-type", authType |-> "sign-in", email |-> "", otpInfo |-> "null",
     generate |-> "idle", stale |-> FALSE, verify |-> "idle"]

\* the application loaded at path: AuthProvider mounts and fetches the user
AppAt(path) ==
    [location |-> [pathname |-> path, from |-> <<>>], me |-> FirstFetch,
     page |-> LoginDefaults, toast |-> "none", answer |-> "none", last |-> "load"]

NoLogin == [AppAt(<<>>) EXCEPT !.me.fetching = FALSE, !.last = "none"]

\* user: user || null
userOf(l) == IF l.me.data = "undefined" THEN NoUser ELSE l.me.data

\* isLoading of useQuery: a fetch is running and there is no data yet
isLoading(l) == l.me.fetching /\ l.me.data = "undefined"

\* a route guard that does not wait for the user check
ProtectedRouteNoSpinner(l) ==
    IF userOf(l) = NoUser THEN "Navigate" ELSE "children"

ProtectedRoute(l) ==
    IF isLoading(l) THEN "LoadingSpinner"
    ELSE IF userOf(l) = NoUser THEN "Navigate"
    ELSE "children"

\* Routes: /login renders Login, every other path the protected layout
element(l) ==
    IF l.location.pathname = loginPath THEN "Login" ELSE ProtectedRoute(l)

\* the answers GET /auth/me can get: those of any request, and a user record
UserResponses ==
    PageResponses \cup
    { CHOOSE r \in Responses :
        r.status = 200 /\ apiCall(r).kind = "returned" /\ truthy(apiCall(r).value) }

\* the user a resolved GET /auth/me carries
userIn(result) == IF truthy(result.value) THEN "admin" ELSE NoUser

\* location.state?.from?.pathname || '/'
fromOf(l) == IF l.location.from = <<>> THEN rootPath ELSE l.location.from

\* the ['auth', 'me'] query after a fetch settled with result; a failure
\* that is not retried sets error, and the effect on error caches null
meSettled(l, result) ==
    IF result.kind = "returned"
    THEN [l EXCEPT !.me = [data |-> userIn(result), fetching |-> FALSE, failureCount |-> 0]]
    ELSE IF retryMe(l.me.failureCount, result)
    THEN [l EXCEPT !.me.failureCount = @ + 1]
    ELSE [l EXCEPT !.me = [data |-> NoUser, fetching |-> FALSE, failureCount |-> 0]]

\* generateOTPMutation.onSuccess / onError
generateSettled(l, result, hasInfo) ==
    IF result.kind = "returned"
    THEN IF hasInfo
         THEN [l EXCEPT !.page.otpInfo = "info", !.page.step = "otp", !.toast = "success"]
         ELSE l
    ELSE [l EXCEPT !.toast = "error"]

\* verifyOTPMutation.onSuccess up to the await / onError
verifySettled(l, result) ==
    IF result.kind = "returned"
    THEN [l EXCEPT !.toast = "success", !.page.verify = "me"]
    ELSE [l EXCEPT !.toast = "error", !.page.verify = "idle"]

\* a continuation that logs in whatever GET /auth/me answered
userLoadedAlways(l, result) ==
    [l EXCEPT !.me.data = "admin",
              !.location = [pathname |-> fromOf(l), from |-> <<>>],
              !.page = LoginDefaults,
              !.last = "login"]

\* verifyOTPMutation.onSuccess after the await of authService.me():
\* login(user) and navigate(from, { replace: true }), or the catch
userLoaded(l, result) ==
    IF result.kind = "returned"
    THEN [l EXCEPT !.me.data = IF userIn(result) = NoUser THEN @ ELSE userIn(result),
                   !.location = [pathname |-> fromOf(l), from |-> <<>>],
                   !.page = LoginDefaults,
                   !.last = "login"]
    ELSE [l EXCEPT !.toast = "error", !.page.verify = "idle", !.last = "meFailed"]

----------------------------------------------------------------------------
(* The tree as a state machine *)

Rerender(term, filter, exp) ==
    LET v == CategoryTree(categories, term, filter, exp)
    IN  /\ view' = v
        /\ isExpanded' = remount(categories, v, exp)

InitTree ==
    /\ categories \in {Absent} \cup { Given(f) : f \in Forests }
    /\ searchTerm = <<>>
    /\ statusFilter = "all"
    /\ isExpanded = [n \in Ids(categories) |-> TRUE]
    /\ view = CategoryTree(categories, searchTerm, statusFilter, isExpanded)
    /\ cookie = ""
    /\ pathname = categoriesPath
    /\ inflight = NoRequest
    /\ response = NoResponse
    /\ outcome = Pending
    /\ earlyOutcome = Pending
    /\ session = NoSession
    /\ rq = NoQuery
    /\ form = NoForm
    /\ cp = NoPage
    /\ pd = NoProducts
    /\ tbl = NoTable
    /\ cf = NoFields
    /\ pf = NoFilters
    /\ img = NoImages
    /\ lg = NoLogin

handleSearchChange(t) ==
    /\ t # searchTerm
    /\ searchTerm' = t
    /\ Rerender(t, statusFilter, isExpanded)
    /\ UNCHANGED <<categories, statusFilter>>
    /\ UNCHANGED <<apiVars, pageVars>>

handleStatusFilterChange(f) ==
    /\ f # statusFilter
    /\ statusFilter' = f
    /\ Rerender(searchTerm, f, isExpanded)
    /\ UNCHANGED <<categories, searchTerm>>
    /\ UNCHANGED <<apiVars, pageVars>>

\* the chevron button exists on a rendered node that has children
toggleExpanded(n) ==
    /\ n \in view.nodes
    /\ children(categories, n) # {}
    /\ Rerender(searchTerm, statusFilter, setIsExpanded(isExpanded, n))
    /\ UNCHANGED <<categories, searchTerm, statusFilter>>
    /\ UNCHANGED <<apiVars, pageVars>>

NextTree ==
    \/ \E t \in SearchTerms : handleSearchChange(t)
    \/ \E f \in StatusFilters : handleStatusFilterChange(f)
    \/ \E n \in Ids(categories) : toggleExpanded(n)

SpecTree == InitTree /\ [][NextTree]_vars

----------------------------------------------------------------------------
(* The client as a state machine *)

InitApi ==
    /\ categories = Absent
    /\ searchTerm = <<>>
    /\ statusFilter = "all"
    /\ isExpanded = <<>>
    /\ view = CategoryTree(Absent, <<>>, "all", <<>>)
    /\ cookie \in Tokens
    /\ pathname \in Paths
    /\ inflight = NoRequest
    /\ response = NoResponse
    /\ outcome = Pending
    /\ earlyOutcome = Pending
    /\ session = NoSession
    /\ rq = NoQuery
    /\ form = NoForm
    /\ cp = NoPage
    /\ pd = NoProducts
    /\ tbl = NoTable
    /\ cf = NoFields
    /\ pf = NoFilters
    /\ img = NoImages
    /\ lg = NoLogin

\* apiCall up to the await: the request interceptor adds the bearer token
apiCallSend(method, url) ==
    /\ inflight = NoRequest
    /\ inflight' = [method |-> method, url |-> url,
                    authorization |-> authorizationHeader(cookie)]
    /\ response' = NoResponse
    /\ outcome' = Pending
    /\ earlyOutcome' = Pending
    /\ UNCHANGED <<cookie, pathname, session>>
    /\ UNCHANGED <<treeVars, pageVars>>

\* the response arrives: response interceptor, then the rest of apiCall;
\* a query that returned fills the cache (GET /auth/me: the current user)
apiCallSettle(r) ==
    /\ inflight # NoRequest
    /\ inflight.url # logoutUrl
    /\ inflight' = NoRequest
    /\ response' = r
    /\ cookie' = cookieAfter(r, cookie)
    /\ pathname' = pathnameAfter(r, pathname)
    /\ outcome' = apiCall(r)
    /\ earlyOutcome' = apiCallEarly(r)
    /\ session' = IF pathnameAfter(r, pathname) # pathname
                  THEN NoSession   \* window.location.href reloads the application
                  ELSE queryCached(session, inflight, apiCall(r))
    /\ UNCHANGED <<treeVars, pageVars>>

\* the server's sign-in response stores the AUTH-TOKEN cookie
setAuthCookie(t) ==
    /\ t # ""
    /\ t # cookie
    /\ cookie' = t
    /\ UNCHANGED <<pathname, inflight, response, outcome, earlyOutcome, session>>
    /\ UNCHANGED <<treeVars, pageVars>>

\* login(user): setQueryData(['auth', 'me'], userData)
login(u) ==
    /\ session.user # u
    /\ session' = [session EXCEPT !.user = u]
    /\ UNCHANGED <<cookie, pathname, inflight, response, outcome, earlyOutcome>>
    /\ UNCHANGED <<treeVars, pageVars>>

\* logout up to the await: POST /auth/logout (the button is in the layout header)
logoutSend ==
    /\ inflight = NoRequest
    /\ session.user # NoUser
    /\ ~startsWith(pathname, loginPath)
    /\ inflight' = [method |-> "POST", url |-> logoutUrl,
                    authorization |-> authorizationHeader(cookie)]
    /\ response' = NoResponse
    /\ outcome' = Pending
    /\ earlyOutcome' = Pending
    /\ UNCHANGED <<cookie, pathname, session>>
    /\ UNCHANGED <<treeVars, pageVars>>

\* logout after the await: catch, then the finally block
logoutSettle(r) ==
    /\ inflight # NoRequest
    /\ inflight.url = logoutUrl
    /\ inflight' = NoRequest
    /\ response' = r
    /\ outcome' = apiCall(r)
    /\ earlyOutcome' = apiCallEarly(r)
    /\ cookie' = logoutCookie(cookieAfter(r, cookie))
    /\ session' = logoutSession(session)
    /\ pathname' = loginPath
    /\ UNCHANGED <<treeVars, pageVars>>

NextApi ==
    \/ \E m \in Methods, u \in Urls : apiCallSend(m, u)
    \/ \E r \in Responses : apiCallSettle(r)
    \/ \E t \in Tokens : setAuthCookie(t)
    \/ \E u \in Users : login(u)
    \/ logoutSend
    \/ \E r \in Responses : logoutSettle(r)

SpecApi == InitApi /\ [][NextApi]_vars

----------------------------------------------------------------------------
(* One query or mutation as a state machine *)

InitQuery ==
    /\ categories = Absent
    /\ searchTerm = <<>>
    /\ statusFilter = "all"
    /\ isExpanded = <<>>
    /\ view = CategoryTree(Absent, <<>>, "all", <<>>)
    /\ cookie \in Tokens
    /\ pathname \in Paths
    /\ inflight = NoRequest
    /\ response = NoResponse
    /\ outcome = Pending
    /\ earlyOutcome = Pending
    /\ session = NoSession
    /\ rq = NoQuery
    /\ form = NoForm
    /\ cp = NoPage
    /\ pd = NoProducts
    /\ tbl = NoTable
    /\ cf = NoFields
    /\ pf = NoFilters
    /\ img = NoImages
    /\ lg = NoLogin

sendFor(kind) ==
    /\ inflight' = [method |-> RequestOf(kind).method, url |-> RequestOf(kind).url,
                    authorization |-> authorizationHeader(cookie)]
    /\ response' = NoResponse
    /\ outcome' = Pending
    /\ earlyOutcome' = Pending
    /\ UNCHANGED <<cookie, pathname, session>>

\* a fetch starts (mount, user action, mutate): the first request
fetchStart(kind) ==
    /\ rq.phase \in {"idle", "success", "error"}
    /\ rq' = [kind |-> kind, phase |-> "fetching", failureCount |-> 0, requests |-> 1]
    /\ sendFor(kind)
    /\ UNCHANGED <<treeVars, queryOthers>>

\* the response arrives; a failure is handed to the retry option
fetchSettle(r) ==
    /\ rq.phase = "fetching"
    /\ inflight' = NoRequest
    /\ response' = r
    /\ cookie' = cookieAfter(r, cookie)
    /\ pathname' = pathnameAfter(r, pathname)
    /\ outcome' = apiCall(r)
    /\ earlyOutcome' = apiCallEarly(r)
    /\ rq' = IF pathnameAfter(r, pathname) # pathname
             THEN NoQuery   \* window.location.href reloads the application
             ELSE IF apiCall(r).kind = "returned"
             THEN [rq EXCEPT !.phase = "success"]
             ELSE IF shouldRetry(rq.kind, rq.failureCount, apiCall(r))
             THEN [rq EXCEPT !.phase = "waiting", !.failureCount = rq.failureCount + 1]
             ELSE [rq EXCEPT !.phase = "error"]
    /\ UNCHANGED session
    /\ UNCHANGED <<treeVars, queryOthers>>

\* the retry delay has passed: the request is issued again
retryFire ==
    /\ rq.phase = "waiting"
    /\ rq' = [rq EXCEPT !.phase = "fetching", !.requests = rq.requests + 1]
    /\ sendFor(rq.kind)
    /\ UNCHANGED <<treeVars, queryOthers>>

NextQuery ==
    \/ \E k \in Kinds : fetchStart(k)
    \/ \E r \in Responses : fetchSettle(r)
    \/ retryFire

SpecQuery == InitQuery /\ [][NextQuery]_vars

----------------------------------------------------------------------------
(* The category form as a state machine *)

InitForm ==
    /\ categories \in { Given(f) : f \in Forests }
    /\ searchTerm = <<>>
    /\ statusFilter = "all"
    /\ isExpanded = [n \in Ids(categories) |-> TRUE]
    /\ view = CategoryTree(categories, searchTerm, statusFilter, isExpanded)
    /\ cookie = "t1"
    /\ pathname = categoriesPath
    /\ inflight = NoRequest
    /\ response = NoResponse
    /\ outcome = Pending
    /\ earlyOutcome = Pending
    /\ session = NoSession
    /\ rq = NoQuery
    /\ form = NoForm
    /\ cp = NoPage
    /\ pd = NoProducts
    /\ tbl = NoTable
    /\ cf = NoFields
    /\ pf = NoFilters
    /\ img = NoImages
    /\ lg = NoLogin

\* "Add Category": the form is rendered without a category
openCreate ==
    /\ form.mode = "closed"
    /\ form' = [mode |-> "create", category |-> NoExclude,
                parentOptions |-> flattenCategories(categories, NoExclude),
                parentId |-> 0]
    /\ UNCHANGED <<treeVars, apiVars, formOthers>>

\* edit of category x: reset() loads its parentId, the options leave x out
openEdit(x) ==
    /\ form.mode = "closed"
    /\ form' = [mode |-> "edit", category |-> x,
                parentOptions |-> flattenCategories(categories, x),
                parentId |-> categories.nodes[x].parentId]
    /\ UNCHANGED <<treeVars, apiVars, formOthers>>

\* the user picks an option of the parent select
selectParent(p) ==
    /\ form.mode # "closed"
    /\ p \in optionIds(form) \cup {0}
    /\ form' = [form EXCEPT !.parentId = p]
    /\ UNCHANGED <<treeVars, apiVars, formOthers>>

closeForm ==
    /\ form.mode # "closed"
    /\ form' = NoForm
    /\ UNCHANGED <<treeVars, apiVars, formOthers>>

NextForm ==
    \/ openCreate
    \/ \E x \in Ids(categories) : openEdit(x)
    \/ \E p \in Ids(categories) : selectParent(p)
    \/ selectParent(0)
    \/ closeForm

SpecForm == InitForm /\ [][NextForm]_vars

----------------------------------------------------------------------------
(* The Categories page as a state machine *)

InitCategories ==
    /\ categories = Absent
    /\ searchTerm = <<>>
    /\ statusFilter = "all"
    /\ isExpanded = <<>>
    /\ view = CategoryTree(Absent, <<>>, "all", <<>>)
    /\ cookie = "t1"
    /\ pathname = categoriesPath
    /\ inflight = NoRequest
    /\ response = NoResponse
    /\ outcome = Pending
    /\ earlyOutcome = Pending
    /\ session = NoSession
    /\ rq = NoQuery
    /\ form = NoForm
    /\ cp = MountedPage
    /\ pd = NoProducts
    /\ tbl = NoTable
    /\ cf = NoFields
    /\ pf = NoFilters
    /\ img = NoImages
    /\ lg = NoLogin

pageStays == UNCHANGED <<treeVars, apiVars, categoriesOthers>>

\* the response interceptor on a 401 at /categories: token removed, the
\* application reloads at /login and the page with its cache is gone
pageReloads(r) ==
    /\ cookie' = cookieAfter(r, cookie)
    /\ pathname' = pathnameAfter(r, pathname)
    /\ cp' = NoPage
    /\ UNCHANGED <<inflight, response, outcome, earlyOutcome, session>>
    /\ UNCHANGED <<treeVars, categoriesOthers>>

redirects(r) == pathnameAfter(r, pathname) # pathname

\* the response of the fetch of the query under key
queryArrives(key, r) ==
    /\ cp.mounted
    /\ cp[key].fetching
    /\ IF redirects(r)
       THEN pageReloads(r)
       ELSE /\ cp' = [cp EXCEPT ![key] = queryResult(cp[key], apiCall(r))]
            /\ pageStays

\* the tree / table toggle; the table enables ['categories', 'all']
setViewMode(mode) ==
    /\ bodyShown(cp)
    /\ cp.modal = "none"
    /\ mode # cp.viewMode
    /\ cp' = [cp EXCEPT !.viewMode = mode,
                        !.all = IF /\ mode = "table"
                                   /\ ~cp.all.fetching
                                   /\ (cp.all.data = NoData \/ cp.all.invalidated)
                                THEN refetch(cp.all) ELSE cp.all]
    /\ pageStays

\* "Add New Category"
addNewCategory ==
    /\ bodyShown(cp)
    /\ cp.modal = "none"
    /\ cp' = [cp EXCEPT !.modal = "create"]
    /\ pageStays

handleEditClick(id) ==
    /\ rowsShown(cp)
    /\ cp.modal = "none"
    /\ cp' = [cp EXCEPT !.modal = "edit", !.selectedCategory = id]
    /\ pageStays

handleDeleteClick(id) ==
    /\ rowsShown(cp)
    /\ cp.modal = "none"
    /\ cp' = [cp EXCEPT !.modal = "delete", !.selectedCategory = id]
    /\ pageStays

\* onClose / onCancel of the open modal or dialog
onClose ==
    /\ bodyShown(cp)
    /\ cp.modal # "none"
    /\ cp' = [cp EXCEPT !.modal = "none",
                        !.selectedCategory = IF cp.modal = "create"
                                             THEN cp.selectedCategory ELSE 0]
    /\ pageStays

\* handleCreateCategory / handleUpdateCategory / handleDeleteCategory
mutate(kind) ==
    /\ canSubmit(cp)
    /\ cp.modal = modalOf(kind)
    /\ cp' = [cp EXCEPT !.pending = cp.pending \cup {kind}]
    /\ pageStays

\* the response of a mutation: onSuccess or onError
mutationArrives(kind, r) ==
    /\ cp.mounted
    /\ kind \in cp.pending
    /\ IF redirects(r)
       THEN pageReloads(r)
       ELSE /\ cp' = IF apiCall(r).kind = "returned"
                     THEN onSuccess(cp, kind) ELSE onError(cp, kind)
            /\ pageStays

\* "Try again" of the error view
tryAgain ==
    /\ cp.mounted
    /\ errorView(cp)
    /\ cp' = invalidateQueries(cp)
    /\ pageStays

\* the user logs in again and opens the page
visitCategories ==
    /\ ~cp.mounted
    /\ cookie' = "t1"
    /\ pathname' = categoriesPath
    /\ cp' = MountedPage
    /\ UNCHANGED <<inflight, response, outcome, earlyOutcome, session>>
    /\ UNCHANGED <<treeVars, categoriesOthers>>

responseArrives ==
    \/ \E key \in QueryKeys, r \in PageResponses : queryArrives(key, r)
    \/ \E kind \in MutationKinds, r \in PageResponses : mutationArrives(kind, r)

NextCategories ==
    \/ responseArrives
    \/ \E mode \in {"tree", "table"} : setViewMode(mode)
    \/ addNewCategory
    \/ \E id \in RowIds : handleEditClick(id)
    \/ \E id \in RowIds : handleDeleteClick(id)
    \/ onClose
    \/ \E kind \in MutationKinds : mutate(kind)
    \/ tryAgain
    \/ visitCategories

SpecCategories == InitCategories /\ [][NextCategories]_vars

\* the hierarchy request is answered or times out
SpecCategoriesFair ==
    SpecCategories /\ WF_vars(\E r \in PageResponses : queryArrives("hierarchy", r))

----------------------------------------------------------------------------
(* The Products and ProductDetail pages as a state machine *)

InitProducts ==
    /\ categories = Absent
    /\ searchTerm = <<>>
    /\ statusFilter = "all"
    /\ isExpanded = <<>>
    /\ view = CategoryTree(Absent, <<>>, "all", <<>>)
    /\ cookie = "t1"
    /\ pathname = productsPath
    /\ inflight = NoRequest
    /\ response = NoResponse
    /\ outcome = Pending
    /\ earlyOutcome = Pending
    /\ session = NoSession
    /\ rq = NoQuery
    /\ form = NoForm
    /\ cp = NoPage
    /\ pd = ProductsList
    /\ tbl = NoTable
    /\ cf = NoFields
    /\ pf = NoFilters
    /\ img = NoImages
    /\ lg = NoLogin

productsStay == UNCHANGED <<treeVars, inflight, response, outcome, earlyOutcome, session,
                            productsOthers>>

\* a 401: token removed, the application reloads at /login
productsReload(r) ==
    /\ cookie' = cookieAfter(r, cookie)
    /\ pathname' = pathnameAfter(r, pathname)
    /\ pd' = NoProducts
    /\ productsStay

productQueryArrives(name, r) ==
    /\ pd.page # "none"
    /\ pd[name].fetching
    /\ IF redirects(r)
       THEN productsReload(r)
       ELSE /\ pd' = [pd EXCEPT ![name] = queryResult(pd[name], apiCall(r))]
            /\ UNCHANGED <<cookie, pathname>>
            /\ productsStay

\* Products: a row is opened, navigate(`/products/${product.id}`)
handleViewClick(id, elapsed) ==
    /\ pd.page = "list"
    /\ pd.pending = ""
    /\ pd.filtered.data # NoData
    /\ ~pd.filtered.error
    /\ pd' = [pd EXCEPT !.page = "detail", !.id = id,
                        ![id] = mountQuery(pd[id], elapsed)]
    /\ pathname' = productPath(id)
    /\ UNCHANGED cookie
    /\ productsStay

\* ProductDetail: navigate('/products')
backToProducts(elapsed) ==
    /\ pd.page = "detail"
    /\ pd.pending = ""
    /\ pd' = [pd EXCEPT !.page = "list", !.id = "",
                        !.filtered = mountQuery(pd.filtered, elapsed),
                        !.stats = mountQuery(pd.stats, elapsed)]
    /\ pathname' = productsPath
    /\ UNCHANGED cookie
    /\ productsStay

\* handleCreateVariant / handleUpdateVariant / handleDeleteVariant
variantMutate(kind) ==
    /\ pd.page = "detail"
    /\ pd[pd.id].data # NoData
    /\ ~pd[pd.id].error
    /\ pd.pending = ""
    /\ pd' = [pd EXCEPT !.pending = kind]
    /\ UNCHANGED <<cookie, pathname>>
    /\ productsStay

\* handleCreateProduct / handleUpdateProduct / handleDeleteProduct
productMutate(kind) ==
    /\ pd.page = "list"
    /\ ~pd.filtered.error
    /\ pd.pending = ""
    /\ pd' = [pd EXCEPT !.pending = kind]
    /\ UNCHANGED <<cookie, pathname>>
    /\ productsStay

\* the response of the pending mutation
productMutationArrives(r) ==
    /\ pd.pending # ""
    /\ IF redirects(r)
       THEN productsReload(r)
       ELSE /\ pd' = IF apiCall(r).kind # "returned"
                     THEN [pd EXCEPT !.pending = "", !.toast = "error"]
                     ELSE IF pd.pending \in VariantKinds
                     THEN onVariantSuccess(pd)
                     ELSE onProductSuccess(pd)
            /\ UNCHANGED <<cookie, pathname>>
            /\ productsStay

\* the user logs in again and opens the list
visitProducts ==
    /\ pd.page = "none"
    /\ cookie' = "t1"
    /\ pathname' = productsPath
    /\ pd' = ProductsList
    /\ productsStay

NextProducts ==
    \/ \E name \in ProductQueries, r \in PageResponses : productQueryArrives(name, r)
    \/ \E id \in ProductIds, elapsed \in BOOLEAN : handleViewClick(id, elapsed)
    \/ \E elapsed \in BOOLEAN : backToProducts(elapsed)
    \/ \E kind \in VariantKinds : variantMutate(kind)
    \/ \E kind \in ProductKinds : productMutate(kind)
    \/ \E r \in PageResponses : productMutationArrives(r)
    \/ visitProducts

SpecProducts == InitProducts /\ [][NextProducts]_vars

----------------------------------------------------------------------------
(* The table view of the Categories page as a state machine *)

InitTable ==
    /\ categories = Absent
    /\ searchTerm = <<>>
    /\ statusFilter = "all"
    /\ isExpanded = <<>>
    /\ view = CategoryTree(categories, searchTerm, statusFilter, isExpanded)
    /\ cookie = ""
    /\ pathname = categoriesPath
    /\ inflight = NoRequest
    /\ response = NoResponse
    /\ outcome = Pending
    /\ earlyOutcome = Pending
    /\ session = NoSession
    /\ rq = NoQuery
    /\ form = NoForm
    /\ cp = NoPage
    /\ pd = NoProducts
    /\ tbl \in { [NoTable EXCEPT !.all = rows] : rows \in Tables }
    /\ cf = NoFields
    /\ pf = NoFilters
    /\ img = NoImages
    /\ lg = NoLogin

tableSearchChange(t) ==
    /\ t # tbl.searchTerm
    /\ tbl' = [tbl EXCEPT !.searchTerm = t]
    /\ UNCHANGED <<treeVars, apiVars, tableOthers>>

tableStatusFilterChange(f) ==
    /\ f # tbl.statusFilter
    /\ tbl' = [tbl EXCEPT !.statusFilter = f]
    /\ UNCHANGED <<treeVars, apiVars, tableOthers>>

\* Pagination is rendered when totalPages > 1 and offers the pages it is given
handlePageChange(page) ==
    /\ totalPages(tbl) > 1
    /\ page \in 0..(totalPages(tbl) - 1)
    /\ page # tbl.currentPage
    /\ tbl' = [tbl EXCEPT !.currentPage = page]
    /\ UNCHANGED <<treeVars, apiVars, tableOthers>>

NextTable ==
    \/ \E t \in SearchTerms : tableSearchChange(t)
    \/ \E f \in StatusFilters : tableStatusFilterChange(f)
    \/ \E page \in 0..MaxRows : handlePageChange(page)

SpecTable == InitTable /\ [][NextTable]_vars

----------------------------------------------------------------------------
(* The name and slug fields of the category form as a state machine *)

\* the form after mount: default values, or reset(category) in edit mode
InitFields ==
    /\ categories = Absent
    /\ searchTerm = <<>>
    /\ statusFilter = "all"
    /\ isExpanded = <<>>
    /\ view = CategoryTree(categories, searchTerm, statusFilter, isExpanded)
    /\ cookie = ""
    /\ pathname = categoriesPath
    /\ inflight = NoRequest
    /\ response = NoResponse
    /\ outcome = Pending
    /\ earlyOutcome = Pending
    /\ session = NoSession
    /\ rq = NoQuery
    /\ form = NoForm
    /\ cp = NoPage
    /\ pd = NoProducts
    /\ tbl = NoTable
    /\ cf \in
         {[NoFields EXCEPT !.mode = "create"]} \cup
         { [NoFields EXCEPT !.mode = "edit", !.name = category.name, !.slug = category.slug] :
             category \in { ExampleForest[i] : i \in 1..Len(ExampleForest) } }
    /\ pf = NoFilters
    /\ img = NoImages
    /\ lg = NoLogin

\* the user edits the name input; the effect on watchName runs after it
setName(n) ==
    /\ n # cf.name
    /\ cf' = [cf EXCEPT !.name = n, !.slug = slugEffect(cf, n), !.last = "name"]
    /\ UNCHANGED <<treeVars, apiVars, cfOthers>>

\* the user edits the slug input
setSlug(s) ==
    /\ s # cf.slug
    /\ cf' = [cf EXCEPT !.slug = s, !.typed = TRUE, !.last = "slug"]
    /\ UNCHANGED <<treeVars, apiVars, cfOthers>>

handleFormSubmit ==
    /\ valid(cf)
    /\ cf' = [cf EXCEPT !.submitted = [name |-> cf.name, slug |-> cf.slug],
                                !.last = "submit"]
    /\ UNCHANGED <<treeVars, apiVars, cfOthers>>

NextFields ==
    \/ \E n \in NameInputs : setName(n)
    \/ \E s \in SlugInputs : setSlug(s)
    \/ handleFormSubmit

SpecFields == InitFields /\ [][NextFields]_vars

----------------------------------------------------------------------------
(* The filters of the Products page as a state machine *)

InitFilters ==
    /\ categories = Absent
    /\ searchTerm = <<>>
    /\ statusFilter = "all"
    /\ isExpanded = <<>>
    /\ view = CategoryTree(categories, searchTerm, statusFilter, isExpanded)
    /\ cookie = ""
    /\ pathname = productsPath
    /\ inflight = NoRequest
    /\ response = NoResponse
    /\ outcome = Pending
    /\ earlyOutcome = Pending
    /\ session = NoSession
    /\ rq = NoQuery
    /\ form = NoForm
    /\ cp = NoPage
    /\ pd = NoProducts
    /\ tbl = NoTable
    /\ cf = NoFields
    /\ pf = InitialFilters
    /\ img = NoImages
    /\ lg = NoLogin

productSearchChange(v) ==
    /\ pf' = [pf EXCEPT !.searchTerm = v, !.currentPage = firstPage(pf.currentPage),
                        !.last = "search"]
    /\ UNCHANGED <<treeVars, apiVars, filterOthers>>

setBrandFilter(v) ==
    /\ pf' = [pf EXCEPT !.brandFilter = v, !.currentPage = firstPage(pf.currentPage),
                        !.last = "brand"]
    /\ UNCHANGED <<treeVars, apiVars, filterOthers>>

setCategoryFilter(v) ==
    /\ pf' = [pf EXCEPT !.categoryFilter = v, !.currentPage = firstPage(pf.currentPage),
                        !.last = "category"]
    /\ UNCHANGED <<treeVars, apiVars, filterOthers>>

setStatusFilter(v) ==
    /\ pf' = [pf EXCEPT !.statusFilter = v, !.currentPage = firstPage(pf.currentPage),
                        !.last = "status"]
    /\ UNCHANGED <<treeVars, apiVars, filterOthers>>

handleClearFilters ==
    /\ pf' = [pf EXCEPT !.searchTerm = "", !.brandFilter = "", !.categoryFilter = "",
                        !.statusFilter = "1", !.currentPage = firstPage(pf.currentPage),
                        !.last = "clear"]
    /\ UNCHANGED <<treeVars, apiVars, filterOthers>>

setSortBy(v) ==
    /\ pf' = [pf EXCEPT !.sortBy = v, !.last = "sortBy"]
    /\ UNCHANGED <<treeVars, apiVars, filterOthers>>

setSortDir ==
    /\ pf' = [pf EXCEPT !.sortDir = IF pf.sortDir = "asc" THEN "desc" ELSE "asc",
                        !.last = "sortDir"]
    /\ UNCHANGED <<treeVars, apiVars, filterOthers>>

\* Pagination offers the pages of the fetched result
productPageChange(page) ==
    /\ pf' = [pf EXCEPT !.currentPage = page, !.last = "page"]
    /\ UNCHANGED <<treeVars, apiVars, filterOthers>>

NextFilters ==
    \/ \E v \in Keywords : productSearchChange(v)
    \/ \E v \in BrandOptions : setBrandFilter(v)
    \/ \E v \in CategoryOptions : setCategoryFilter(v)
    \/ \E v \in StatusOptions : setStatusFilter(v)
    \/ handleClearFilters
    \/ \E v \in SortOptions : setSortBy(v)
    \/ setSortDir
    \/ \E page \in 0..MaxPage : productPageChange(page)

SpecFilters == InitFilters /\ [][NextFilters]_vars

----------------------------------------------------------------------------
(* The image gallery of ProductDetail as a state machine *)

InitImages ==
    /\ categories = Absent
    /\ searchTerm = <<>>
    /\ statusFilter = "all"
    /\ isExpanded = <<>>
    /\ view = CategoryTree(categories, searchTerm, statusFilter, isExpanded)
    /\ cookie = ""
    /\ pathname = productPath("p1")
    /\ inflight = NoRequest
    /\ response = NoResponse
    /\ outcome = Pending
    /\ earlyOutcome = Pending
    /\ session = NoSession
    /\ rq = NoQuery
    /\ form = NoForm
    /\ cp = NoPage
    /\ pd = NoProducts
    /\ tbl = NoTable
    /\ cf = NoFields
    /\ pf = NoFilters
    /\ img \in { [NoImages EXCEPT !.product = variants] : variants \in ProductVariants }
    /\ lg = NoLogin

\* the arrows are rendered when there is more than one image
nextImage ==
    /\ Len(getAllImages(img.product)) > 1
    /\ img' = [img EXCEPT !.currentImageIndex =
                 (img.currentImageIndex + 1) % Len(getAllImages(img.product))]
    /\ UNCHANGED <<treeVars, apiVars, imageOthers>>

prevImage ==
    /\ Len(getAllImages(img.product)) > 1
    /\ img' = [img EXCEPT !.currentImageIndex =
                 (img.currentImageIndex - 1 + Len(getAllImages(img.product)))
                     % Len(getAllImages(img.product))]
    /\ UNCHANGED <<treeVars, apiVars, imageOthers>>

\* a click on the thumbnail at index
setCurrentImageIndex(index) ==
    /\ Len(getAllImages(img.product)) > 1
    /\ index < Len(getAllImages(img.product))
    /\ img' = [img EXCEPT !.currentImageIndex = index]
    /\ UNCHANGED <<treeVars, apiVars, imageOthers>>

setIsZoomOpen(open) ==
    /\ open # img.isZoomOpen
    /\ img' = [img EXCEPT !.isZoomOpen = open]
    /\ UNCHANGED <<treeVars, apiVars, imageOthers>>

\* a variant mutation succeeded, ['products', id] was invalidated and the
\* refetched product has arrived
productRefetched(variants) ==
    /\ variants \in afterVariantWrite(img.product)
    /\ img' = [img EXCEPT !.product = variants]
    /\ UNCHANGED <<treeVars, apiVars, imageOthers>>

NextImages ==
    \/ nextImage
    \/ prevImage
    \/ \E index \in 0..(Len(getAllImages(img.product)) - 1) : setCurrentImageIndex(index)
    \/ \E open \in BOOLEAN : setIsZoomOpen(open)
    \/ \E variants \in ProductVariants : productRefetched(variants)

SpecImages == InitImages /\ [][NextImages]_vars

----------------------------------------------------------------------------
(* Authentication and the login flow as a state machine *)

InitLogin ==
    /\ categories = Absent
    /\ searchTerm = <<>>
    /\ statusFilter = "all"
    /\ isExpanded = <<>>
    /\ view = CategoryTree(categories, searchTerm, statusFilter, isExpanded)
    /\ cookie = ""
    /\ pathname = loginPath
    /\ inflight = NoRequest
    /\ response = NoResponse
    /\ outcome = Pending
    /\ earlyOutcome = Pending
    /\ session = NoSession
    /\ rq = NoQuery
    /\ form = NoForm
    /\ cp = NoPage
    /\ pd = NoProducts
    /\ tbl = NoTable
    /\ cf = NoFields
    /\ pf = NoFilters
    /\ img = NoImages
    /\ lg \in { AppAt(loginPath), AppAt(categoriesPath) }

onLogin == lg.location.pathname = loginPath

\* the answer to the fetch of ['auth', 'me']; a 401 away from the login page
\* reloads the application at /login
meArrives(r) ==
    /\ lg.me.fetching
    /\ lg' = IF pathnameAfter(r, lg.location.pathname) # lg.location.pathname
             THEN AppAt(loginPath)
             ELSE [meSettled(lg, apiCall(r)) EXCEPT !.last = "me"]
    /\ UNCHANGED <<treeVars, apiVars, loginOthers>>

\* the cached user is refetched (window focus or mount once it is stale)
refetchMe ==
    /\ ~lg.me.fetching
    /\ lg.me.data # "undefined"
    /\ lg' = [lg EXCEPT !.me.fetching = TRUE, !.last = "refetch"]
    /\ UNCHANGED <<treeVars, apiVars, loginOthers>>

\* <Navigate to="/login" state={{ from: location }} replace />
Navigate ==
    /\ element(lg) = "Navigate"
    /\ lg' = [lg EXCEPT !.location = [pathname |-> loginPath, from |-> lg.location.pathname],
                        !.page = LoginDefaults,
                        !.last = "navigate"]
    /\ UNCHANGED <<treeVars, apiVars, loginOthers>>

handleAuthTypeSelect(type) ==
    /\ onLogin
    /\ lg.page.step = "auth-type"
    /\ lg' = [lg EXCEPT !.page.authType = type, !.page.step = "email", !.last = "select"]
    /\ UNCHANGED <<treeVars, apiVars, loginOthers>>

\* the submit button is disabled while generateOTPMutation is pending
onEmailSubmit ==
    /\ onLogin
    /\ lg.page.step = "email"
    /\ lg.page.generate = "idle"
    /\ lg' = [lg EXCEPT !.page.email = "e", !.page.generate = "pending",
                        !.page.stale = FALSE, !.last = "generate"]
    /\ UNCHANGED <<treeVars, apiVars, loginOthers>>

\* Resend OTP: generateOTPMutation.mutate(email)
resendOTP ==
    /\ onLogin
    /\ lg.page.step = "otp"
    /\ lg.page.generate = "idle"
    /\ lg' = [lg EXCEPT !.page.generate = "pending", !.page.stale = FALSE,
                        !.last = "generate"]
    /\ UNCHANGED <<treeVars, apiVars, loginOthers>>

handleBackToEmail ==
    /\ onLogin
    /\ lg.page.step = "otp"
    /\ lg' = [lg EXCEPT !.page.step = "email", !.page.otpInfo = "null",
                        !.page.stale = (lg.page.generate = "pending"),
                        !.last = "back"]
    /\ UNCHANGED <<treeVars, apiVars, loginOthers>>

handleBackToAuthType ==
    /\ onLogin
    /\ lg.page.step = "email"
    /\ lg' = [lg EXCEPT !.page.step = "auth-type", !.page.email = "",
                        !.page.otpInfo = "null",
                        !.last = "back"]
    /\ UNCHANGED <<treeVars, apiVars, loginOthers>>

generateArrives(r, hasInfo) ==
    /\ onLogin
    /\ lg.page.generate = "pending"
    /\ lg' = [generateSettled(lg, apiCall(r), hasInfo) EXCEPT
                 !.page.generate = "idle", !.page.stale = FALSE, !.last = "generated"]
    /\ UNCHANGED <<treeVars, apiVars, loginOthers>>

\* the submit button is disabled while verifyOTPMutation is pending, which
\* lasts until its onSuccess has returned
onOTPSubmit ==
    /\ onLogin
    /\ lg.page.step = "otp"
    /\ lg.page.verify = "idle"
    /\ lg.page.otpInfo # "null"
    /\ lg' = [lg EXCEPT !.page.verify = "pending", !.last = "verify"]
    /\ UNCHANGED <<treeVars, apiVars, loginOthers>>

verifyArrives(r) ==
    /\ onLogin
    /\ lg.page.verify = "pending"
    /\ lg' = [verifySettled(lg, apiCall(r)) EXCEPT !.last = "verified"]
    /\ UNCHANGED <<treeVars, apiVars, loginOthers>>

\* the answer to the authService.me() awaited in verifyOTPMutation.onSuccess
userArrives(r) ==
    /\ onLogin
    /\ lg.page.verify = "me"
    /\ lg' = [userLoaded(lg, apiCall(r)) EXCEPT !.answer = apiCall(r).kind]
    /\ UNCHANGED <<treeVars, apiVars, loginOthers>>

NextLogin ==
    \/ \E r \in UserResponses : meArrives(r)
    \/ refetchMe
    \/ Navigate
    \/ \E type \in {"sign-in", "sign-up"} : handleAuthTypeSelect(type)
    \/ onEmailSubmit
    \/ resendOTP
    \/ handleBackToEmail
    \/ handleBackToAuthType
    \/ \E r \in PageResponses, hasInfo \in BOOLEAN : generateArrives(r, hasInfo)
    \/ onOTPSubmit
    \/ \E r \in PageResponses : verifyArrives(r)
    \/ \E r \in UserResponses : userArrives(r)

SpecLogin == InitLogin /\ [][NextLogin]_vars

----------------------------------------------------------------------------
(* Category tree: properties *)

cat(n) == categories.nodes[n]
matches(n) == shouldShow(cat(n), searchTerm, statusFilter)
allExpanded == \A n \in Ids(categories) : isExpanded[n]

\* top -> mid -> g is a three-level chain from a top-level node
Chain(top, mid, g) ==
    /\ cat(top).parentId = 0
    /\ cat(mid).parentId = top
    /\ cat(g).parentId = mid

OnlyMatch(g) == \A n \in Ids(categories) : matches(n) <=> n = g

\* C1 (as claimed): with every node expanded, a node is rendered whenever it
\* matches search and status itself or has a descendant, at any depth, that
\* is rendered.
C1_ShownIfSelfOrDescendantShown ==
    allExpanded =>
        \A n \in Ids(categories) :
            (matches(n) \/ \E d \in descendants(categories, n) : d \in view.nodes)
                => n \in view.nodes

\* C2: a mounted node (a root, or a child of a rendered, expanded node) is
\* rendered exactly when it matches search and status itself or one of its
\* DIRECT children does; for Electronics(1) > Phones(0), 'phone'/'all'
\* renders both and 'phone'/'active' renders neither.
C2_OwnDecisionOneLevel ==
    /\ \A n \in Ids(categories) :
          mounted(categories, n, view, isExpanded) =>
             (n \in view.nodes <=>
                (matches(n) \/ \E c \in children(categories, n) : matches(c)))
    /\ (categories = Given(ExampleForest) /\ searchTerm = phoneTerm) =>
          /\ statusFilter = "all" => (1 \in view.nodes /\ (isExpanded[1] => 2 \in view.nodes))
          /\ statusFilter = "active" => view.nodes = {}

C2_Witness ==
    /\ categories = Given(ExampleForest)
    /\ searchTerm = phoneTerm
    /\ statusFilter = "active"
    /\ view.nodes = {}

C4_SearchMatchAlwaysShown ==
    (statusFilter = "all" /\ allExpanded) =>
        \A n \in Ids(categories) :
            matchesSearchOn(cat(n).name, cat(n).slug, searchTerm) => n \in view.nodes

\* C5 (as claimed): under 'inactive' no rendered node has status 1, under
\* 'active' no rendered node has status 0.
C5_StatusPartition ==
    /\ statusFilter = "inactive" => \A n \in view.nodes : cat(n).status = 0
    /\ statusFilter = "active" => \A n \in view.nodes : cat(n).status = 1

\* C5 (amended): under 'active' / 'inactive' a rendered node whose status
\* disagrees with the filter has a direct child that matches the search term
\* and whose status agrees with the filter; a node without such a child is
\* rendered only if its own status agrees.
C5_StatusPartitionUpToParents ==
    \A n \in view.nodes :
        /\ (statusFilter = "inactive" /\ cat(n).status = 1) =>
              \E c \in children(categories, n) :
                  cat(c).status = 0
                  /\ matchesSearchOn(cat(c).name, cat(c).slug, searchTerm)
        /\ (statusFilter = "active" /\ cat(n).status = 0) =>
              \E c \in children(categories, n) :
                  cat(c).status = 1
                  /\ matchesSearchOn(cat(c).name, cat(c).slug, searchTerm)

C5_Witness ==
    /\ statusFilter = "inactive"
    /\ \E n \in view.nodes : cat(n).status = 1
    /\ \E n \in Ids(categories) : cat(n).status = 1 /\ n \notin view.nodes

\* C6: with an empty search term, filter 'all' and every node expanded,
\* every node of the forest is rendered.
C6_IdentityFilter ==
    (searchTerm = <<>> /\ statusFilter = "all" /\ allExpanded) =>
        view.nodes = Ids(categories)

C6_Witness ==
    /\ searchTerm = <<>> /\ statusFilter = "all" /\ allExpanded
    /\ \E n \in Ids(categories) : depth(categories, n) = 2 /\ cat(n).status = 0
    /\ view.nodes = Ids(categories)

\* what a toggle of node n may not touch: n itself, every node outside n's
\* subtree, and every node's match results
ToggleFrame(n) ==
    /\ \A m \in Ids(categories) \ descendants(categories, n) :
          (m \in view'.nodes) <=> (m \in view.nodes)
    /\ \A m \in Ids(categories) :
          shouldShow(cat(m), searchTerm', statusFilter')
              <=> shouldShow(cat(m), searchTerm, statusFilter)
    /\ \A m \in descendants(categories, n) :
          (m \in view'.nodes) => isExpanded'[n]

\* C7: every collapse flag starts expanded, and a toggle changes only
\* whether the toggled node's descendants are displayed.
C7_ToggleIsLocal ==
    /\ allExpanded
    /\ [][\A n \in Ids(categories) : toggleExpanded(n) => ToggleFrame(n)]_vars

C7_Witness ==
    \E n \in view.nodes :
        /\ ~isExpanded[n]
        /\ \E c \in children(categories, n) : matches(c) /\ c \notin view.nodes
        /\ \E m \in view.nodes : m # n

\* C8: the empty state is rendered, with no node, exactly when the
\* categories sequence is absent or empty.
C8_EmptyState ==
    /\ (~categories.present \/ Len(categories.nodes) = 0) =>
          (view.emptyState /\ view.nodes = {})
    /\ view.emptyState => (~categories.present \/ Len(categories.nodes) = 0)

C8_Witness ==
    /\ ~categories.present
    /\ view.emptyState
    /\ searchTerm # <<>>

\* C29: for every category forest the statistics satisfy
\* total = active + inactive, total is the number of nodes at all depths and
\* active counts exactly the nodes whose status is 1.
C29_StatsCountEveryNode ==
    LET stats == categoryStats(categories)
    IN  /\ stats.total = stats.active + stats.inactive
        /\ stats.total = Len(categories.nodes)
        /\ stats.active =
              Cardinality({ n \in Ids(categories) : categories.nodes[n].status = 1 })

C29_Witness ==
    /\ categories.present
    /\ \E n \in Ids(categories) : depth(categories, n) = 2
    /\ categoryStats(categories).active = 1
    /\ categoryStats(categories).inactive = 2

----------------------------------------------------------------------------
(* Envelope client: properties *)

\* the payload of the outer envelope of the last response
outerData == Get(response.data, "data")

\* the last response was a 2xx response whose body is an envelope
OkEnvelope ==
    /\ resolves(response)
    /\ response.data.t = "object"
    /\ Has(response.data, "message")
    /\ Has(response.data, "data")

\* C9: for a successful single-envelope response {message, data: P} whose
\* payload P is plain (it has no 'message' property of its own), apiCall
\* returns exactly P, in both snapshots of the client.
C9_SingleEnvelopeReturnsPayload ==
    (OkEnvelope /\ ~(outerData.t = "object" /\ Has(outerData, "message"))) =>
        (outcome = Returned(outerData) /\ earlyOutcome = Returned(outerData))

C9_Witness ==
    /\ response.status = 200
    /\ response.data =
          Envelope("ok", JObj({ <<"id", JStr("1")>>, <<"name", JStr("X")>> }))
    /\ outcome = Returned(JObj({ <<"id", JStr("1")>>, <<"name", JStr("X")>> }))

\* the payload of the last response is an inner envelope with message 'error'
InnerError ==
    /\ OkEnvelope
    /\ outerData.t = "object"
    /\ Get(outerData, "message") = JStr("error")

\* C10 (as claimed): when the outer data of a successful response is an
\* envelope with message 'error' whose data is a string, apiCall throws an
\* error whose text is exactly that string.
C10_InnerErrorTextIsInnerData ==
    (InnerError /\ Get(outerData, "data").t = "string") =>
        outcome = Thrown(Get(outerData, "data").s)

\* C10 (amended): such a response makes apiCall throw, never return; the
\* error's text is the inner data string when that string is non-empty, and
\* 'An error occurred' when it is empty, null or missing.
C10_InnerErrorThrows ==
    InnerError =>
        /\ outcome.kind = "thrown"
        /\ (Get(outerData, "data").t = "string" /\ Get(outerData, "data").s # "") =>
              outcome.message = Get(outerData, "data").s
        /\ ~truthy(Get(outerData, "data")) => outcome.message = "An error occurred"

C10_Witness ==
    /\ response.status = 200
    /\ response.data = Envelope("ok", Envelope("error", JStr("Name already exists")))
    /\ outcome = Thrown("Name already exists")

\* C22: for a successful single-envelope response whose payload is a domain
\* record with a 'message' property other than 'error' (a ContactMessage),
\* apiCall returns that record unchanged.
C22_MessageRecordReturnedUnchanged ==
    (/\ OkEnvelope
     /\ outerData.t = "object"
     /\ Has(outerData, "message")
     /\ Get(outerData, "message") # JStr("error")
     /\ ~Has(outerData, "data")) =>
        outcome = Returned(outerData)

----------------------------------------------------------------------------
(* Client and session: properties *)

\* a step in which the awaited request settles
Settles == inflight # NoRequest /\ inflight' = NoRequest

\* a step in which a request is sent
Sends == inflight = NoRequest /\ inflight' # NoRequest

\* C11 (as claimed): a 401 response removes the stored token and navigates
\* to /login, except when the current path already starts with /login, where
\* the token is removed and the location stays.
C11_Redirect401UnlessOnLogin ==
    [][(Settles /\ response'.status = 401) =>
          /\ cookie' = ""
          /\ pathname' = IF startsWith(pathname, loginPath) THEN pathname ELSE loginPath]_vars

\* C12: a request carries 'Authorization: Bearer t' exactly when the cookie
\* holds a token t at send time, and a 401 response or a completed logout
\* leaves no token, so later requests carry no header until a token is stored.
C12_BearerIffCookie ==
    [][/\ Sends =>
            /\ (cookie # "" => inflight'.authorization = Bearer(cookie))
            /\ (cookie = "" => ~inflight'.authorization.present)
       /\ (Settles /\ (response'.status = 401 \/ inflight.url = logoutUrl)) =>
            cookie' = ""]_vars

C12_Witness ==
    /\ inflight # NoRequest
    /\ ~inflight.authorization.present
    /\ session.lastCall = logoutUrl

\* the server-provided message of the last response, if it has a non-empty one
serverMessage == Get(response.data, "message")

\* C13: a rejected request makes apiCall throw an Error whose message is the
\* server-provided message when the body has one, otherwise the
\* transport-level text, and the generic text only when neither exists.
C13_RejectionMessage ==
    (response # NoResponse /\ ~resolves(response)) =>
        /\ outcome.kind = "thrown"
        /\ outcome.message =
              IF serverMessage.t = "string" /\ serverMessage.s # ""
              THEN serverMessage.s
              ELSE IF response.text # "" THEN response.text
              ELSE "An error occurred"

C13_Witness ==
    /\ response.status = 500
    /\ ~truthy(serverMessage)
    /\ outcome = Thrown("Request failed with status code 500")

\* C19: logout ends with the cookie removed, the cached user null and the
\* query cache empty, whether POST /auth/logout succeeds or fails;
\* afterwards isAuthenticated is false.
C19_LogoutClearsEverything ==
    [][(Settles /\ inflight.url = logoutUrl) =>
          /\ cookie' = ""
          /\ session'.user = NoUser
          /\ session'.cache = {}
          /\ ~isAuthenticated']_vars

C19_Witness ==
    /\ session.lastCall = logoutUrl
    /\ inflight = NoRequest
    /\ response.status = 500
    /\ cookie = ""
    /\ session.cache = {}

----------------------------------------------------------------------------
(* Retry: properties *)

\* C14 (as claimed): the current-user check is retried at most once, and
\* not at all after a 401 response, whatever message the 401 body carries.
C14_MeRetriedOnceNever401 ==
    rq.kind = "me" =>
        /\ rq.requests <= 2
        /\ (response.status = 401 /\ inflight = NoRequest) => rq.phase # "waiting"

----------------------------------------------------------------------------
(* Category form: properties *)

\* the forest's parent links after the form's selection is saved for x
parentAfterSave(n) ==
    IF n = form.category THEN form.parentId ELSE categories.nodes[n].parentId

\* the ancestor reached from n after k parent steps (0: above the roots)
RECURSIVE ancestorAfter(_, _)
ancestorAfter(n, k) ==
    IF k = 0 \/ n = 0 THEN n ELSE ancestorAfter(parentAfterSave(n), k - 1)

\* C20: while category X is edited, the parent options contain neither X nor
\* a descendant of X, so whichever option is selected, X's parent chain ends
\* at a root instead of looping; while a category is created, every category
\* of the forest is an option.
C20_ParentOptionsExcludeSubtree ==
    /\ form.mode = "edit" =>
          /\ optionIds(form) =
                Ids(categories) \ ({form.category} \cup descendants(categories, form.category))
          /\ ancestorAfter(form.category, Len(categories.nodes)) = 0
    /\ form.mode = "create" => optionIds(form) = Ids(categories)

C20_Witness ==
    /\ form.mode = "edit"
    /\ descendants(categories, form.category) # {}
    /\ optionIds(form) # {}
    /\ form.parentId \in optionIds(form)
    /\ form.parentId # categories.nodes[form.category].parentId

----------------------------------------------------------------------------
(* Categories page: properties *)

\* a mutation response that the success handler took
MutationSucceeds ==
    /\ cp.mounted
    /\ cp'.toast = "success"
    /\ \E kind \in cp.pending : kind \notin cp'.pending

\* the response of the mutation of this kind was a failure
MutationFails(kind) ==
    /\ cp.mounted
    /\ kind \in cp.pending
    /\ cp'.toast # "success"
    /\ kind \notin cp'.pending

\* the tree is given the hierarchy of the server's current state
treeShowsServerState ==
    /\ bodyShown(cp)
    /\ cp.hierarchy.data = Current

\* a further mutation is under way
furtherMutation == cp.pending # {}

\* C16 (as claimed): a successful category mutation invalidates hierarchy,
\* all and stats, a failed one invalidates nothing, and an invalidated
\* hierarchy is eventually refetched so that the tree shows the server's
\* state after the last mutation.
C16_InvalidatedThenTreeCurrent ==
    /\ [][/\ MutationSucceeds => \A key \in QueryKeys : cp'[key].invalidated
          /\ (\E kind \in MutationKinds : MutationFails(kind)) =>
                \A key \in QueryKeys : cp'[key].invalidated => cp[key].invalidated]_vars
    /\ cp.hierarchy.invalidated ~> (treeShowsServerState \/ furtherMutation)

\* C16 (amended): as above, except that the tree shows the server's state
\* only if the refetch (with its one retry) succeeds: otherwise the page ends
\* in its "Failed to load categories" view, or, after a 401, at /login.
C16_InvalidatedThenTreeCurrentOrError ==
    /\ [][/\ MutationSucceeds =>
                /\ \A key \in QueryKeys : cp'[key].invalidated
                /\ \A key \in QueryKeys : isActive(cp, key) => cp'[key].fetching
          /\ (\E kind \in MutationKinds : MutationFails(kind)) =>
                \A key \in QueryKeys : cp'[key].invalidated => cp[key].invalidated]_vars
    /\ cp.hierarchy.invalidated ~>
          (treeShowsServerState \/ furtherMutation \/ errorView(cp) \/ ~cp.mounted)

C16_Witness ==
    /\ cp.toast = "success"
    /\ cp.stats.data = Stale
    /\ treeShowsServerState
    /\ cp.all.invalidated
    /\ ~cp.all.fetching

\* C23: in every reachable state of the Categories page, an open edit modal
\* or delete dialog has a non-null selectedCategory, also when the success
\* handler of a mutation fires after its own modal was dismissed and a dialog
\* for another category was opened.
C23_OpenModalHasSelection ==
    (cp.mounted /\ cp.modal \in {"edit", "delete"}) => cp.selectedCategory # 0

\* C18: a failed category mutation (other than a 401, which reloads the
\* application at /login) shows an error notification, leaves the modal and
\* selectedCategory as they were, and the modal that issued it can submit
\* again.
C18_FailureKeepsModal ==
    [][\A kind \in MutationKinds : (MutationFails(kind) /\ cp'.mounted) =>
          /\ cp'.toast = "error"
          /\ cp'.modal = cp.modal
          /\ cp'.selectedCategory = cp.selectedCategory
          /\ (bodyShown(cp) /\ cp.modal = modalOf(kind)) => canSubmit(cp')]_vars

----------------------------------------------------------------------------
(* Product queries: properties *)

\* the success handler of a variant mutation ran
VariantSucceeds ==
    /\ pd.pending \in VariantKinds
    /\ pd'.pending = ""
    /\ pd'.toast = "success"

\* C17: after a variant create, update or delete on product P succeeds on
\* the detail page, every cached query that contains P's variants (the
\* detail query of P, the filtered list, the stats) is invalidated.
C17_VariantWriteInvalidatesListAndDetail ==
    [][VariantSucceeds =>
          \A name \in {pd.id, "filtered", "stats"} :
              cached(pd[name]) => pd'[name].invalidated]_vars

----------------------------------------------------------------------------
(* Table view: properties *)

RECURSIVE pagesUpTo(_, _)
pagesUpTo(t, n) ==
    IF n = 0 THEN <<>> ELSE pagesUpTo(t, n - 1) \o pageOf(t, n - 1)

\* C27: in table view, whenever the filtered list is non-empty the displayed
\* page is non-empty (currentPage < totalPages), and the pages
\* 0..totalPages-1 partition the filtered list in order with at most pageSize
\* rows each.
C27_DisplayedPageNonEmpty ==
    /\ Len(filteredTableCategories(tbl)) > 0 =>
          /\ tbl.currentPage < totalPages(tbl)
          /\ Len(paginatedCategories(tbl)) > 0
    /\ pagesUpTo(tbl, totalPages(tbl)) = filteredTableCategories(tbl)
    /\ \A page \in 0..(totalPages(tbl) - 1) : Len(pageOf(tbl, page)) <= pageSize

\* the part of C27 about the page function alone
C27_PagesPartition ==
    /\ pagesUpTo(tbl, totalPages(tbl)) = filteredTableCategories(tbl)
    /\ \A page \in 0..(totalPages(tbl) - 1) :
          Len(pageOf(tbl, page)) \in 1..pageSize

----------------------------------------------------------------------------
(* Category form fields: properties *)

\* C21: once the user has typed a slug it stays, and is what is submitted,
\* until the user edits the slug field again, also when the name is edited
\* afterwards, in create mode and in edit mode.
C21_TypedSlugKept ==
    [][(cf.typed /\ cf'.last # "slug") =>
          /\ cf'.slug = cf.slug
          /\ cf'.last = "submit" => cf'.submitted.slug = cf.slug]_vars

\* the same, for a form that edits an existing category
C21_TypedSlugKeptInEditMode ==
    [][(cf.mode = "edit" /\ cf.typed /\ cf'.last # "slug") =>
          /\ cf'.slug = cf.slug
          /\ cf'.last = "submit" => cf'.submitted.slug = cf.slug]_vars

C21_Witness ==
    /\ cf.mode = "edit"
    /\ cf.typed
    /\ cf.last = "submit"
    /\ cf.name = MyTv
    /\ cf.submitted.slug = <<"t", "v", "-", "1">>

----------------------------------------------------------------------------
(* Products filters: properties *)

\* C28: every change of the search term, the brand, category or status
\* filter, and clearing the filters, sets currentPage to 0 in the same step
\* (so the next request asks for page 0); a change of the sort field or
\* direction leaves currentPage unchanged.
C28_FilterChangeResetsPage ==
    [][/\ (\/ pf'.searchTerm # pf.searchTerm
           \/ pf'.brandFilter # pf.brandFilter
           \/ pf'.categoryFilter # pf.categoryFilter
           \/ pf'.statusFilter # pf.statusFilter
           \/ pf'.last = "clear") =>
              (pf'.currentPage = 0 /\ filterParams(pf').page = 0)
       /\ (pf'.sortBy # pf.sortBy \/ pf'.sortDir # pf.sortDir) =>
              (pf'.currentPage = pf.currentPage /\ filterParams(pf').page = pf.currentPage)]_vars

C28_Witness ==
    /\ pf.last = "sortDir"
    /\ pf.currentPage = 0
    /\ pf.brandFilter = "b1"
    /\ pf.sortDir = "asc"
    /\ filterParams(pf).keyword = undefined

----------------------------------------------------------------------------
(* Product images: properties *)

\* C30: whenever the product has at least one distinct image,
\* 0 <= currentImageIndex < number of distinct images, after any sequence of
\* next, previous and thumbnail clicks interleaved with variant mutations and
\* refetches.
C30_ImageIndexInRange ==
    Len(getAllImages(img.product)) >= 1 =>
        (0 <= img.currentImageIndex /\ img.currentImageIndex < Len(getAllImages(img.product)))

----------------------------------------------------------------------------
(* Login flow and route guard: properties *)

\* the answer to a generate-OTP request arrives
GenerateArrives == lg.page.generate = "pending" /\ lg'.last = "generated"

\* C24: after the user went back, step does not return to 'otp' unless a
\* generate-OTP request issued after that back action succeeds; the answer
\* to a request that was in flight when the user went back changes neither
\* step nor otpInfo.
C24_StaleOtpResponseIgnored ==
    [][/\ (lg'.page.step = "otp" /\ lg.page.step # "otp") =>
             (GenerateArrives /\ ~lg.page.stale)
       /\ (GenerateArrives /\ lg.page.stale) =>
             (lg'.page.step = lg.page.step /\ lg'.page.otpInfo = lg.page.otpInfo)]_vars

----------------------------------------------------------------------------
\* a verify-OTP request is sent
VerifySent == lg.page.verify = "idle" /\ lg'.page.verify = "pending"

\* the GET /auth/me awaited after a successful verification is answered
UserArrives == lg.page.verify = "me" /\ lg'.page.verify # "me"

\* C25: verify-OTP is sent only while an otpInfo from a successful
\* generate-OTP is held; login(user) and the navigation to the originally
\* requested path happen only when, after a successful verify-OTP, GET
\* /auth/me succeeds; if it fails, the cached user and the location stay as
\* they were (unauthenticated, on the login page) and an error notification
\* is shown.
C25_LoginAfterVerifyThenMe ==
    [][/\ VerifySent => (lg.page.step = "otp" /\ lg.page.otpInfo = "info")
       /\ (lg'.last = "login" \/ (onLogin /\ lg'.location.pathname # loginPath)) =>
             /\ UserArrives
             /\ lg'.answer = "returned"
             /\ lg'.location.pathname = fromOf(lg)
       /\ (UserArrives /\ lg'.answer = "returned") => lg'.last = "login"
       /\ (UserArrives /\ lg'.answer = "thrown") =>
             /\ userOf(lg') = userOf(lg)
             /\ lg'.location = lg.location
             /\ lg'.toast = "error"]_vars

C25_Witness ==
    /\ lg.last = "login"
    /\ lg.answer = "returned"
    /\ userOf(lg) = "admin"
    /\ lg.location.pathname = categoriesPath
    /\ element(lg) = "children"

====
